---- MODULE Spec2Model ----
(***************************************************************************)
(* A model of the lexer and the recursive-descent parser of                *)
(* src/src/pages/Index.tsx.                                                *)
(*                                                                         *)
(* A string is a sequence of one-character strings; an index written i is  *)
(* 0-based as in the source, and At / Slice translate to TLA+'s 1-based    *)
(* sequences.  A token is [type |-> ..., value |-> <string>].              *)
(***************************************************************************)
EXTENDS Integers, Sequences, FiniteSets, TLC

VARIABLES
    inputCode,   \* tokenize: the source text as passed by the caller
    code,        \* tokenize: inputCode after the block-comment replace (line 53)
    lines,       \* tokenize: code.split('\n')
    lineIdx,     \* tokenize: 0-based index of the line the for-of loop is at
    i,           \* tokenize: the character index of the while loop
    tokens,      \* the token array (built by tokenize, read by parse)
    spans,       \* history: for each token, where its lexeme was read from
    pc,          \* control point
    current,     \* the parser's module-level cursor (line 145)
    body,        \* parseProgram: the Program body built so far
    ast,         \* the tree parse returned (null before)
    trace,       \* history: every value assigned to current in this parse call
    codeInput,         \* Index: the text of the textarea
    semanticAnalysis,  \* Index: the results of the analyzer (null before)
    intermediateCode,  \* Index: the three-address code as text
    optimizedCode,     \* Index: the optimized code as text
    assemblyCode,      \* Index: the assembly as text
    activeTab          \* Index: the tab that is shown

vars == <<inputCode, code, lines, lineIdx, i, tokens, spans, pc, current, body,
          ast, trace, codeInput, semanticAnalysis, intermediateCode,
          optimizedCode, assemblyCode, activeTab>>

lexVars == <<inputCode, code, lines, lineIdx, i, spans>>
parseVars == <<current, body, ast, trace>>
uiVars == <<codeInput, semanticAnalysis, intermediateCode, optimizedCode,
            assemblyCode, activeTab>>

-----------------------------------------------------------------------------
(* Bounds of the explored inputs.                                          *)

MaxLen == 3
MaxTail == 3

-----------------------------------------------------------------------------
(* Strings.                                                                *)

Min(a, b) == IF a < b THEN a ELSE b
Max(a, b) == IF a > b THEN a ELSE b

\* The value of line[k] for an index past the end of the string.
Undef == "undefined"

At(s, k) == IF k >= 0 /\ k < Len(s) THEN s[k + 1] ELSE Undef

\* s.slice(a, b) for 0 <= a.
Slice(s, a, b) == SubSeq(s, a + 1, Min(b, Len(s)))

SliceFrom(s, a) == SubSeq(s, a + 1, Len(s))

Spaces(n) == [k \in 1..n |-> " "]

Letters ==
    {"a","b","c","d","e","f","g","h","i","j","k","l","m","n","o","p","q","r",
     "s","t","u","v","w","x","y","z","A","B","C","D","E","F","G","H","I","J",
     "K","L","M","N","O","P","Q","R","S","T","U","V","W","X","Y","Z"}

Digits == {"0","1","2","3","4","5","6","7","8","9"}

HexDigits == Digits \cup {"a","b","c","d","e","f","A","B","C","D","E","F"}

\* \s
SpaceChars == {" ", "\t", "\n", "\r", "\f"}

IsSpace(c) == c \in SpaceChars

\* \w, which is also the class [a-zA-Z0-9_] of line 128
WordChars == Letters \cup Digits \cup {"_"}

IsWord(c) == c \in WordChars

\* \b at offset p of s: exactly one of the characters around p is a word character.
Boundary(s, p) == IsWord(At(s, p - 1)) # IsWord(At(s, p))

AllIn(s, a, b, S) == \A k \in a..(b - 1) : At(s, k) \in S

\* t occurs in s at offset p
OccursAt(s, t, p) == p + Len(t) <= Len(s) /\ SubSeq(s, p + 1, p + Len(t)) = t

IsSubstring(t, s) == \E p \in 0..Len(s) : OccursAt(s, t, p)

-----------------------------------------------------------------------------
(* The token patterns of tokenRegex, each as the result of regex.test.     *)

str_int == <<"i","n","t">>
str_char == <<"c","h","a","r">>
str_float == <<"f","l","o","a","t">>
str_double == <<"d","o","u","b","l","e">>
str_if == <<"i","f">>
str_else == <<"e","l","s","e">>
str_for == <<"f","o","r">>
str_while == <<"w","h","i","l","e">>
str_return == <<"r","e","t","u","r","n">>
str_void == <<"v","o","i","d">>
str_include == <<"i","n","c","l","u","d","e">>
str_define == <<"d","e","f","i","n","e">>

Keywords ==
    {str_int, str_char, str_float, str_double, str_if, str_else, str_for,
     str_while, str_return, str_void, str_include, str_define}

\* /^#\s*\w+\s*(<[^>]+>|\"[^\"]+\")/
MatchPreprocessor(s) ==
    /\ At(s, 0) = "#"
    /\ \E a \in 1..Len(s) : \E b \in (a + 1)..Len(s) : \E c \in b..Len(s) :
         \E d \in (c + 2)..Len(s) :
           /\ AllIn(s, 1, a, SpaceChars)
           /\ AllIn(s, a, b, WordChars)
           /\ AllIn(s, b, c, SpaceChars)
           /\ \/ /\ At(s, c) = "<"
                 /\ \A k \in (c + 1)..(d - 1) : At(s, k) # ">"
                 /\ At(s, d) = ">"
              \/ /\ At(s, c) = "\""
                 /\ \A k \in (c + 1)..(d - 1) : At(s, k) # "\""
                 /\ At(s, d) = "\""

MatchKeyword_NoBoundary(s) ==
    \E p \in 0..Len(s) : \E w \in Keywords : OccursAt(s, w, p)

\* /\b(int|char|float|double|if|else|for|while|return|void|include|define)\b/
MatchKeyword(s) ==
    \E p \in 0..Len(s) : \E w \in Keywords :
        /\ OccursAt(s, w, p)
        /\ Boundary(s, p)
        /\ Boundary(s, p + Len(w))

MatchIdentifier_NoUnderscore(s) ==
    \E p \in 0..Len(s) : \E q \in (p + 1)..Len(s) :
        /\ Boundary(s, p)
        /\ At(s, p) \in Letters
        /\ AllIn(s, p + 1, q, WordChars)
        /\ Boundary(s, q)

\* /\b[a-zA-Z_]\w*\b/
MatchIdentifier(s) ==
    \E p \in 0..Len(s) : \E q \in (p + 1)..Len(s) :
        /\ Boundary(s, p)
        /\ At(s, p) \in Letters \cup {"_"}
        /\ AllIn(s, p + 1, q, WordChars)
        /\ Boundary(s, q)

IsDigit(c) == c \in Digits
IsHexDigit(c) == c \in HexDigits

\* 0x[0-9A-Fa-f]+ matching s from offset p to offset q
HexBody(s, p, q) ==
    /\ q >= p + 3
    /\ At(s, p) = "0"
    /\ At(s, p + 1) = "x"
    /\ AllIn(s, p + 2, q, HexDigits)

\* \d+(\.\d+)?([eE][-+]?\d+)? matching s from offset p to offset q
DecimalBody(s, p, q) ==
    \E a \in (p + 1)..q : \E b \in a..q :
        /\ AllIn(s, p, a, Digits)
        /\ \/ b = a
           \/ /\ b >= a + 2
              /\ At(s, a) = "."
              /\ AllIn(s, a + 1, b, Digits)
        /\ \/ q = b
           \/ /\ At(s, b) \in {"e", "E"}
              /\ \E f \in {b + 1, b + 2} :
                   /\ f = b + 2 => At(s, b + 1) \in {"-", "+"}
                   /\ q >= f + 1
                   /\ AllIn(s, f, q, Digits)

\* /\b(0x[0-9A-Fa-f]+|\d+(\.\d+)?([eE][-+]?\d+)?)\b/
MatchNumber(s) ==
    \E p \in 0..Len(s) : \E q \in (p + 1)..Len(s) :
        /\ Boundary(s, p)
        /\ Boundary(s, q)
        /\ HexBody(s, p, q) \/ DecimalBody(s, p, q)

\* The length of the match of /^"([^"\\]|\\.)*"/ on s read from offset k on
\* (k is past the opening quote), or 0 when there is none.  The pattern has
\* one way to read each character, so the match is unique.
RECURSIVE StringBody(_, _)
StringBody(s, k) ==
    IF k >= Len(s) THEN 0
    ELSE IF At(s, k) = "\"" THEN k + 1
    ELSE IF At(s, k) = "\\"
         THEN IF k + 1 < Len(s) /\ At(s, k + 1) \notin {"\n", "\r"} THEN StringBody(s, k + 2) ELSE 0
    ELSE StringBody(s, k + 1)

\* line.slice(i).match(/^"([^"\\]|\\.)*"/): the length of match[0], 0 for null
StringMatchLen(s) == IF At(s, 0) = "\"" THEN StringBody(s, 1) ELSE 0

MatchStringLiteral(s) == StringMatchLen(s) > 0

OperatorChars == {"-","+","*","/","%","=","<",">","&","^","|","!","~"}

TwoCharOperators ==
    {<<"=","=">>, <<"!","=">>, <<"<","=">>, <<">","=">>, <<"+","+">>,
     <<"-","-">>, <<"-",">">>, <<"&","&">>, <<"|","|">>}

MatchOperator_Exact(s) ==
    \/ s \in TwoCharOperators
    \/ Len(s) = 1 /\ s[1] \in OperatorChars

\* /^(==|!=|<=|>=|\+\+|--|->|&&|\|\||[-+*/%=<>&^|!~])/ : anchored at the start
\* only, so it accepts every string that begins with an operator.
MatchOperator(s) ==
    \/ Slice(s, 0, 2) \in TwoCharOperators
    \/ At(s, 0) \in OperatorChars

\* /^[;,.:]/
MatchSeparator(s) == At(s, 0) \in {";", ",", ".", ":"}

MatchOpenParen(s) == At(s, 0) = "("
MatchCloseParen(s) == At(s, 0) = ")"
MatchOpenBrace(s) == At(s, 0) = "{"
MatchCloseBrace(s) == At(s, 0) = "}"

\* /^\/\/.*|^\/\*[\s\S]*?\*\//
MatchComment(s) ==
    \/ At(s, 0) = "/" /\ At(s, 1) = "/"
    \/ /\ At(s, 0) = "/" /\ At(s, 1) = "*"
       /\ \E b \in 2..Len(s) : At(s, b) = "*" /\ At(s, b + 1) = "/"

Token(t, v) == [type |-> t, value |-> v]

\* The first pattern of tokenRegex, in its declared order, that the lexeme
\* passes; UNDEFINED when none does.
classifyLexeme(lexeme) ==
    IF MatchPreprocessor(lexeme) THEN Token("PREPROCESSOR", lexeme)
    ELSE IF MatchKeyword(lexeme) THEN Token("KEYWORD", lexeme)
    ELSE IF MatchIdentifier(lexeme) THEN Token("IDENTIFIER", lexeme)
    ELSE IF MatchNumber(lexeme) THEN Token("NUMBER", lexeme)
    ELSE IF MatchStringLiteral(lexeme) THEN Token("STRING_LITERAL", lexeme)
    ELSE IF MatchOperator(lexeme) THEN Token("OPERATOR", lexeme)
    ELSE IF MatchSeparator(lexeme) THEN Token("SEPARATOR", lexeme)
    ELSE IF MatchOpenParen(lexeme) THEN Token("OPEN_PAREN", lexeme)
    ELSE IF MatchCloseParen(lexeme) THEN Token("CLOSE_PAREN", lexeme)
    ELSE IF MatchOpenBrace(lexeme) THEN Token("OPEN_BRACE", lexeme)
    ELSE IF MatchCloseBrace(lexeme) THEN Token("CLOSE_BRACE", lexeme)
    ELSE IF MatchComment(lexeme) THEN Token("COMMENT", lexeme)
    ELSE Token("UNDEFINED", lexeme)

-----------------------------------------------------------------------------
(* tokenize.                                                               *)

\* The offset of the first "*/" of s at or after offset k, or -1.
RECURSIVE FindClose(_, _)
FindClose(s, k) ==
    IF k + 1 >= Len(s) THEN -1
    ELSE IF At(s, k) = "*" /\ At(s, k + 1) = "/" THEN k
    ELSE FindClose(s, k + 1)

\* inputCode.replace(/\/\*[\s\S]*?\*\//g, ...) from offset k on: the matches
\* are found left to right and do not overlap; each is pushed as a COMMENT
\* token and replaced by as many blanks.  Returns the new text, the tokens
\* pushed and where each match was.
\* The block-comment pass with each comment put in front of the ones found
\* before it.
RECURSIVE ReplaceBlockComments_Reversed(_, _, _, _)
ReplaceBlockComments_Reversed(s, k, toks, sps) ==
    IF k + 1 >= Len(s) THEN [text |-> s, tokens |-> toks, spans |-> sps]
    ELSE IF At(s, k) = "/" /\ At(s, k + 1) = "*" /\ FindClose(s, k + 2) >= 0
    THEN LET e == FindClose(s, k + 2) + 2
             match == Slice(s, k, e)
         IN  ReplaceBlockComments_Reversed(
                 SubSeq(s, 1, k) \o Spaces(Len(match)) \o SliceFrom(s, e),
                 e,
                 <<Token("COMMENT", match)>> \o toks,
                 <<[from |-> k, to |-> e, pass |-> "block"]>> \o sps)
    ELSE ReplaceBlockComments_Reversed(s, k + 1, toks, sps)

RECURSIVE ReplaceBlockComments(_, _, _, _)
ReplaceBlockComments(s, k, toks, sps) ==
    IF k + 1 >= Len(s) THEN [text |-> s, tokens |-> toks, spans |-> sps]
    ELSE IF At(s, k) = "/" /\ At(s, k + 1) = "*" /\ FindClose(s, k + 2) >= 0
    THEN LET e == FindClose(s, k + 2) + 2
             match == Slice(s, k, e)
         IN  ReplaceBlockComments(
                 SubSeq(s, 1, k) \o Spaces(Len(match)) \o SliceFrom(s, e),
                 e,
                 Append(toks, Token("COMMENT", match)),
                 Append(sps, [from |-> k, to |-> e, pass |-> "block"]))
    ELSE ReplaceBlockComments(s, k + 1, toks, sps)

\* s.split('\n'), from offset k on with the line being collected in acc
RECURSIVE SplitFrom(_, _, _)
SplitFrom(s, k, acc) ==
    IF k >= Len(s) THEN <<acc>>
    ELSE IF At(s, k) = "\n" THEN <<acc>> \o SplitFrom(s, k + 1, <<>>)
    ELSE SplitFrom(s, k + 1, Append(acc, At(s, k)))

Split(s) == SplitFrom(s, 0, <<>>)

\* The offsets of the first and one past the last non-blank character of s
\* (both Len(s) and 0 for a blank string).
FirstNonSpace(s) ==
    IF \E k \in 0..(Len(s) - 1) : ~IsSpace(At(s, k))
    THEN CHOOSE k \in 0..(Len(s) - 1) :
             ~IsSpace(At(s, k)) /\ \A j \in 0..(k - 1) : IsSpace(At(s, j))
    ELSE Len(s)

EndNonSpace(s) ==
    IF \E k \in 0..(Len(s) - 1) : ~IsSpace(At(s, k))
    THEN CHOOSE k \in 1..Len(s) :
             ~IsSpace(At(s, k - 1)) /\ \A j \in k..(Len(s) - 1) : IsSpace(At(s, j))
    ELSE 0

\* line.trim()
Trim(s) == Slice(s, FirstNonSpace(s), EndNonSpace(s))

\* /^\s*#/.test(line)
IsPreprocessorLine(line) == At(line, FirstNonSpace(line)) = "#"

\* The offset one past the run of [a-zA-Z0-9_] that starts at offset k
\* (the inner while loop of line 128).
RECURSIVE RunEnd(_, _)
RunEnd(line, k) ==
    IF k < Len(line) /\ IsWord(At(line, k)) THEN RunEnd(line, k + 1) ELSE k

Step(branch, toks, ni, brk) ==
    [branch |-> branch, push |-> toks, i |-> ni, brk |-> brk]

stringStep_NoAdvance(line, k) ==
    LET len == StringMatchLen(SliceFrom(line, k))
    IN  IF len > 0
        THEN Step("string", <<Token("STRING_LITERAL", Slice(line, k, k + len))>>,
                  k + len, FALSE)
        ELSE Step("string", <<Token("UNDEFINED", <<"\"">>)>>, k, FALSE)

\* Lines 78-88: a string literal, or the quote alone as UNDEFINED.
stringStep(line, k) ==
    LET len == StringMatchLen(SliceFrom(line, k))
    IN  IF len > 0
        THEN Step("string", <<Token("STRING_LITERAL", Slice(line, k, k + len))>>,
                  k + len, FALSE)
        ELSE Step("string", <<Token("UNDEFINED", <<"\"">>)>>, k + 1, FALSE)

\* The operator branch with i moved on by one character only.
operatorStep_Overlap(line, k) ==
    LET twoChar == Slice(line, k, k + 2)
        oneChar == <<At(line, k)>>
    IN  IF MatchOperator(twoChar)
        THEN Step("operator", <<Token("OPERATOR", twoChar)>>, k + 1, FALSE)
        ELSE Step("operator", <<Token("OPERATOR", oneChar)>>, k + 1, FALSE)

\* Lines 89-101: twoChar is tested first and oneChar after it.  Whatever
\* begins with an operator character passes the first test, so the oneChar
\* branch is never the one taken.
operatorStep(line, k) ==
    LET twoChar == Slice(line, k, k + 2)
        oneChar == <<At(line, k)>>
    IN  IF MatchOperator(twoChar)
        THEN Step("operator", <<Token("OPERATOR", twoChar)>>, k + 2, FALSE)
        ELSE Step("operator", <<Token("OPERATOR", oneChar)>>, k + 1, FALSE)

lexemeStep_DropRest(line, k) ==
    IF RunEnd(line, k) > k
    THEN Step("lexeme", <<classifyLexeme(Slice(line, k, k + 1))>>,
              RunEnd(line, k), FALSE)
    ELSE Step("undefined", <<Token("UNDEFINED", <<At(line, k)>>)>>, k + 1, FALSE)

\* Lines 127-137: a run of word characters is classified; any other
\* character is UNDEFINED on its own.
lexemeStep(line, k) ==
    IF RunEnd(line, k) > k
    THEN Step("lexeme", <<classifyLexeme(Slice(line, k, RunEnd(line, k)))>>,
              RunEnd(line, k), FALSE)
    ELSE Step("undefined", <<Token("UNDEFINED", <<At(line, k)>>)>>, k + 1, FALSE)

\* One iteration of the while loop of lines 68-138 at offset k < line.length:
\* the branch taken, the tokens pushed, the new value of i, and whether the
\* iteration ends in break.
scanStep(line, k) ==
    LET oneChar == <<At(line, k)>>
    IN  IF IsSpace(At(line, k)) THEN Step("space", <<>>, k + 1, FALSE)
        ELSE IF At(line, k) = "/" /\ At(line, k + 1) = "/"
        THEN Step("comment", <<Token("COMMENT", SliceFrom(line, k))>>, k, TRUE)
        ELSE IF At(line, k) = "\"" THEN stringStep(line, k)
        ELSE IF MatchOperator(Slice(line, k, k + 2)) \/ MatchOperator(oneChar)
        THEN operatorStep(line, k)
        ELSE IF MatchSeparator(oneChar)
        THEN Step("separator", <<Token("SEPARATOR", oneChar)>>, k + 1, FALSE)
        ELSE IF MatchOpenParen(oneChar)
        THEN Step("bracket", <<Token("OPEN_PAREN", oneChar)>>, k + 1, FALSE)
        ELSE IF MatchCloseParen(oneChar)
        THEN Step("bracket", <<Token("CLOSE_PAREN", oneChar)>>, k + 1, FALSE)
        ELSE IF MatchOpenBrace(oneChar)
        THEN Step("bracket", <<Token("OPEN_BRACE", oneChar)>>, k + 1, FALSE)
        ELSE IF MatchCloseBrace(oneChar)
        THEN Step("bracket", <<Token("CLOSE_BRACE", oneChar)>>, k + 1, FALSE)
        ELSE lexemeStep(line, k)

\* Lines 51-141 as one function of the text, for tokenizing a second text:
\* the while loop of lines 68-138 from offset k on.
RECURSIVE scanLine(_, _, _)

\* Lines 68-138: the tokens of one iteration are pushed; break ends the line.
scanNext(line, toks, s) ==
    IF s.brk THEN toks \o s.push ELSE scanLine(line, s.i, toks \o s.push)

scanLine(line, k, toks) ==
    IF k >= Len(line) THEN toks ELSE scanNext(line, toks, scanStep(line, k))

\* Lines 60-139: the for loop over the lines, from line number n on.
RECURSIVE scanLines(_, _, _)
scanLines(ls, n, toks) ==
    IF n >= Len(ls) THEN toks
    ELSE IF IsPreprocessorLine(ls[n + 1])
    THEN scanLines(ls, n + 1, Append(toks, Token("PREPROCESSOR", Trim(ls[n + 1]))))
    ELSE scanLines(ls, n + 1, scanLine(ls[n + 1], 0, toks))

\* Lines 58-141.
tokenizeLines(r) == scanLines(Split(r.text), 0, r.tokens)

\* Lines 51-57.
tokenize(s) == tokenizeLines(ReplaceBlockComments(s, 0, <<>>, <<>>))

\* The offset in the text at which line number n (0-based) starts.
RECURSIVE LineOffset(_, _)
LineOffset(ls, n) ==
    IF n = 0 THEN 0 ELSE LineOffset(ls, n - 1) + Len(ls[n]) + 1

Line == lines[lineIdx + 1]

LineSpan(from, to) ==
    [from |-> LineOffset(lines, lineIdx) + from,
     to |-> LineOffset(lines, lineIdx) + Min(to, Len(Line)),
     pass |-> "line"]

\* Lines 52-58: the block-comment pass, then the split into lines.
StripBlockComments ==
    /\ pc = "tokenize"
    /\ LET r == ReplaceBlockComments(inputCode, 0, <<>>, <<>>)
       IN  /\ code' = r.text
           /\ tokens' = r.tokens
           /\ spans' = r.spans
           /\ lines' = Split(r.text)
    /\ lineIdx' = 0
    /\ pc' = "line"
    /\ UNCHANGED <<inputCode, i>>
    /\ UNCHANGED parseVars
    /\ UNCHANGED uiVars

\* Lines 62-66: a line whose first non-blank character is # is one token.
PreprocessorLine ==
    /\ pc = "line"
    /\ lineIdx < Len(lines)
    /\ IsPreprocessorLine(Line)
    /\ tokens' = Append(tokens, Token("PREPROCESSOR", Trim(Line)))
    /\ spans' = Append(spans, LineSpan(FirstNonSpace(Line), EndNonSpace(Line)))
    /\ lineIdx' = lineIdx + 1
    /\ UNCHANGED <<inputCode, code, lines, i, pc>>
    /\ UNCHANGED parseVars
    /\ UNCHANGED uiVars

\* Lines 60-61: any other line is scanned from i = 0.
BeginLine ==
    /\ pc = "line"
    /\ lineIdx < Len(lines)
    /\ ~IsPreprocessorLine(Line)
    /\ i' = 0
    /\ pc' = "scan"
    /\ UNCHANGED <<inputCode, code, lines, lineIdx, tokens, spans>>
    /\ UNCHANGED parseVars
    /\ UNCHANGED uiVars

\* One iteration of the while loop that takes the given branch.
Scan(branch) ==
    /\ pc = "scan"
    /\ i < Len(Line)
    /\ LET s == scanStep(Line, i)
       IN  /\ s.branch = branch
           /\ tokens' = tokens \o s.push
           /\ spans' = spans \o [k \in 1..Len(s.push) |->
                                   LineSpan(i, IF s.brk THEN Len(Line) ELSE s.i)]
           /\ i' = s.i
           /\ IF s.brk
              THEN lineIdx' = lineIdx + 1 /\ pc' = "line"
              ELSE UNCHANGED <<lineIdx, pc>>
    /\ UNCHANGED <<inputCode, code, lines>>
    /\ UNCHANGED parseVars
    /\ UNCHANGED uiVars

ScanBranches ==
    {"space", "comment", "string", "operator", "separator", "bracket",
     "lexeme", "undefined"}

ScanSpace == pc = "scan" /\ Scan("space")
ScanLineComment == pc = "scan" /\ Scan("comment")
ScanString == pc = "scan" /\ Scan("string")
ScanOperator == pc = "scan" /\ Scan("operator")
ScanSeparator == pc = "scan" /\ Scan("separator")
ScanBracket == pc = "scan" /\ Scan("bracket")
ScanLexeme == pc = "scan" /\ Scan("lexeme")
ScanUndefined == pc = "scan" /\ Scan("undefined")

\* Line 68: the while loop ends when i has reached line.length.
EndLine ==
    /\ pc = "scan"
    /\ i >= Len(Line)
    /\ lineIdx' = lineIdx + 1
    /\ pc' = "line"
    /\ UNCHANGED <<inputCode, code, lines, i, tokens, spans>>
    /\ UNCHANGED parseVars
    /\ UNCHANGED uiVars

\* Line 141: return tokens.
TokenizeReturn ==
    /\ pc = "line"
    /\ lineIdx >= Len(lines)
    /\ pc' = "lexed"
    /\ UNCHANGED <<inputCode, code, lines, lineIdx, i, tokens, spans>>
    /\ UNCHANGED parseVars
    /\ UNCHANGED uiVars

NextLex ==
    \/ StripBlockComments
    \/ PreprocessorLine
    \/ BeginLine
    \/ ScanSpace
    \/ ScanLineComment
    \/ ScanString
    \/ ScanOperator
    \/ ScanSeparator
    \/ ScanBracket
    \/ ScanLexeme
    \/ ScanUndefined
    \/ EndLine
    \/ TokenizeReturn

-----------------------------------------------------------------------------
(* The parser.  A grammar rule is an operator of the token array and the   *)
(* parser state st on entry, and yields the parser state on return.        *)
(* st.cur is the module-level cursor `current`; st.trace lists every value *)
(* assigned to it; st.node is the node the last rule returned; st.halt     *)
(* tells whether the call is still running ("ok"), has thrown on reading a *)
(* field of tokens[current] past the end ("threw"), or sits in a loop      *)
(* whose iteration leaves the cursor where it was ("stalled": the tokens   *)
(* never change and every loop test reads the cursor only, so the          *)
(* iteration repeats for ever).  A halted call runs no further code: the   *)
(* cursor is frozen, every rule unwinds as at the end of the input, and    *)
(* the node it yields is not used.                                         *)

NullNode == [type |-> "null"]

\* The objects { error: "..." } the rules return; they have no type field,
\* and the type "Error" stands for that.
ErrorNode(msg) == [type |-> "Error", error |-> msg]

R(node, st) == [st EXCEPT !.node = node]

Halted(st) == st.halt # "ok"

\* current < tokens.length
InRange(toks, st) == ~Halted(st) /\ st.cur < Len(toks)

\* tokens[current]
Tok(toks, st) == toks[st.cur + 1]

Adv_Back(st) ==
    IF Halted(st) THEN st
    ELSE [st EXCEPT !.cur = @ - 1, !.trace = Append(@, st.cur - 1)]

\* current++
Adv(st) ==
    IF Halted(st) THEN st
    ELSE [st EXCEPT !.cur = @ + 1, !.trace = Append(@, st.cur + 1)]

\* A TypeError: a field of tokens[current] is read with current past the end.
Throw(st) == IF Halted(st) THEN st ELSE [st EXCEPT !.halt = "threw"]

Stall(st) == IF Halted(st) THEN st ELSE [st EXCEPT !.halt = "stalled"]

\* Lines 147-150.
isTypeSpecifier(token) ==
    /\ token.type = "KEYWORD"
    /\ token.value \in {str_int, str_char, str_float, str_double, str_void}

IsSemicolon(toks, st) ==
    /\ InRange(toks, st)
    /\ Tok(toks, st).type = "SEPARATOR"
    /\ Tok(toks, st).value = <<";">>

MissingId == <<"<","m","i","s","s","i","n","g"," ","i","d",">">>

\* A rule's code is cut where it calls another rule: the operator named
\* after the rule runs up to its first call, and each operator that follows
\* takes the result of a call and runs the code after it.

RECURSIVE parseCompoundStatement(_, _), compoundLoop(_, _, _),
          parseStatement(_, _), parseReturnStatement(_, _),
          parseIfStatement(_, _), parseForStatement(_, _),
          parseDeclaration(_, _, _), declarationLoop(_, _, _, _),
          parseExpressionStatement(_, _), parseExpression(_, _),
          parseAssignment(_, _), parseEquality(_, _), equalityLoop(_, _),
          parseRelational(_, _), relationalLoop(_, _),
          parseAdditive(_, _), additiveLoop(_, _),
          parseMultiplicative(_, _), multiplicativeLoop(_, _),
          parseUnary(_, _), parsePostfix(_, _), postfixLoop(_, _),
          parsePrimary(_, _), argumentLoop(_, _, _), parameterLoop(_, _, _)

\* Lines 198-212: the parameter loop of parseFunctionDefinition.
parameterLoop(toks, st, parameters) ==
    IF InRange(toks, st) /\ Tok(toks, st).value # <<")">>
    THEN IF Tok(toks, st).value = <<",">>
         THEN parameterLoop(toks, Adv(st), parameters)
         ELSE IF isTypeSpecifier(Tok(toks, st))
         THEN LET paramType == Tok(toks, st).value
                  st1 == Adv(st)
                  paramName == IF st1.cur < Len(toks)
                               THEN Tok(toks, st1).value ELSE MissingId
              IN  parameterLoop(toks, Adv(st1),
                      Append(parameters,
                             [type |-> "Parameter", paramType |-> paramType,
                              paramName |-> paramName]))
         ELSE parameterLoop(toks, Adv(st), parameters)
    ELSE [list |-> parameters, st |-> st]

\* Lines 224-230.
functionNode(returnType, funcName, parameters, bodyNode) ==
    R([type |-> "FunctionDeclaration",
       returnType |-> returnType,
       name |-> funcName,
       parameters |-> parameters,
       body |-> bodyNode.node], bodyNode)

\* Lines 214-223: after the parameter loop.
functionBody(toks, returnType, funcName, ps) ==
    IF ~InRange(toks, ps.st)
    THEN R(ErrorNode("Unexpected end of input while parsing function parameters"),
           ps.st)
    ELSE
    LET st3 == Adv(ps.st)
    IN  IF ~InRange(toks, st3) \/ Tok(toks, st3).type # "OPEN_BRACE"
        THEN R(ErrorNode("Expected '{' at beginning of function body"), st3)
        ELSE functionNode(returnType, funcName, ps.list,
                          parseCompoundStatement(toks, st3))

\* Lines 181-197.
parseFunctionDefinition(toks, st) ==
    IF ~InRange(toks, st) THEN R(NullNode, Throw(st))
    ELSE
    LET returnType == Tok(toks, st).value
        st1 == Adv(st)
    IN  IF ~InRange(toks, st1) \/ Tok(toks, st1).type # "IDENTIFIER"
        THEN R(ErrorNode("Expected function name"), st1)
        ELSE
        LET funcName == Tok(toks, st1).value
            st2 == Adv(st1)
        IN  IF ~InRange(toks, st2) \/ Tok(toks, st2).type # "OPEN_PAREN"
            THEN R(ErrorNode("Expected '(' after function name"), st2)
            ELSE functionBody(toks, returnType, funcName,
                              parameterLoop(toks, Adv(st2), <<>>))

\* Line 242, and the next test of the loop: stmt is pushed unless it is null.
compoundNext(toks, st, stmts, stmt) ==
    LET stmts1 == IF stmt.node.type # "null" THEN Append(stmts, stmt.node) ELSE stmts
    IN  IF Halted(stmt) THEN [list |-> stmts1, st |-> stmt]
        ELSE IF stmt.cur = st.cur THEN [list |-> stmts1, st |-> Stall(stmt)]
        ELSE compoundLoop(toks, stmt, stmts1)

\* Lines 240-243: the statement loop of parseCompoundStatement.
compoundLoop(toks, st, stmts) ==
    IF InRange(toks, st) /\ Tok(toks, st).type # "CLOSE_BRACE"
    THEN compoundNext(toks, st, stmts, parseStatement(toks, st))
    ELSE [list |-> stmts, st |-> st]

\* The end of the statement loop with null returned for a missing brace.
compoundEnd_Null(toks, l) ==
    IF InRange(toks, l.st) /\ Tok(toks, l.st).type = "CLOSE_BRACE"
    THEN R([type |-> "CompoundStatement", body |-> l.list], Adv(l.st))
    ELSE R(NullNode, l.st)

\* Lines 244-249.
compoundEnd(toks, l) ==
    IF InRange(toks, l.st) /\ Tok(toks, l.st).type = "CLOSE_BRACE"
    THEN R([type |-> "CompoundStatement", body |-> l.list], Adv(l.st))
    ELSE R(ErrorNode("Expected '}' at end of compound statement"), l.st)

\* Lines 233-239.
parseCompoundStatement(toks, st) ==
    IF ~InRange(toks, st) THEN R(NullNode, Throw(st))
    ELSE IF Tok(toks, st).type # "OPEN_BRACE"
    THEN R(ErrorNode("Expected '{' at beginning of compound statement"), st)
    ELSE compoundEnd(toks, compoundLoop(toks, Adv(st), <<>>))

\* Lines 254-273: the choice of the statement rule by the first token.
statementRule(toks, st, token) ==
    IF token.type = "COMMENT" THEN R(NullNode, Adv(st))
    ELSE IF token.type = "KEYWORD" /\ token.value = str_return
    THEN parseReturnStatement(toks, st)
    ELSE IF token.type = "KEYWORD" /\ token.value = str_if
    THEN parseIfStatement(toks, st)
    ELSE IF token.type = "KEYWORD" /\ token.value = str_for
    THEN parseForStatement(toks, st)
    ELSE IF isTypeSpecifier(token) THEN parseDeclaration(toks, st, TRUE)
    ELSE IF token.type = "OPEN_BRACE" THEN parseCompoundStatement(toks, st)
    ELSE parseExpressionStatement(toks, st)

parseStatement_NoEndCheck(toks, st) ==
    IF Halted(st) THEN R(NullNode, st)
    ELSE IF st.cur >= Len(toks) THEN R(NullNode, Throw(st))
    ELSE statementRule(toks, st, Tok(toks, st))

\* Lines 252-274.
parseStatement(toks, st) ==
    IF ~InRange(toks, st) THEN R(NullNode, st)
    ELSE statementRule(toks, st, Tok(toks, st))

\* current++ when tokens[current] is the separator ';'
SkipSemicolon(toks, st) == IF IsSemicolon(toks, st) THEN Adv(st) ELSE st

\* Lines 279-282.
returnEnd(toks, expr) ==
    R([type |-> "ReturnStatement", expression |-> expr.node],
      SkipSemicolon(toks, expr))

\* Lines 276-278.
parseReturnStatement(toks, st) ==
    returnEnd(toks, parseExpression(toks, Adv(st)))

\* Line 302.
ifNode(condition, thenStmt, elseStmt) ==
    R([type |-> "IfStatement", condition |-> condition.node,
       then |-> thenStmt.node, else |-> elseStmt.node], elseStmt)

\* The else left to the caller: the if returns without an else branch.
ifElse_Outer(toks, condition, thenStmt) ==
    ifNode(condition, thenStmt, R(NullNode, thenStmt))

\* Lines 297-301.
ifElse(toks, condition, thenStmt) ==
    IF /\ InRange(toks, thenStmt)
       /\ Tok(toks, thenStmt).type = "KEYWORD"
       /\ Tok(toks, thenStmt).value = str_else
    THEN ifNode(condition, thenStmt, parseStatement(toks, Adv(thenStmt)))
    ELSE ifNode(condition, thenStmt, R(NullNode, thenStmt))

\* Lines 292-296.
ifThen(toks, condition) ==
    IF ~InRange(toks, condition)
       \/ Tok(toks, condition).type # "CLOSE_PAREN"
    THEN R(ErrorNode("Expected ')' after if condition"), condition)
    ELSE ifElse(toks, condition, parseStatement(toks, Adv(condition)))

\* Lines 285-291.
parseIfStatement(toks, st) ==
    LET st1 == Adv(st)
    IN  IF ~InRange(toks, st1) \/ Tok(toks, st1).type # "OPEN_PAREN"
        THEN R(ErrorNode("Expected '(' after if"), st1)
        ELSE ifThen(toks, parseExpression(toks, Adv(st1)))

\* Lines 334-340.
forNode(initialization, condition, increment, bodyNode) ==
    R([type |-> "ForStatement",
       initialization |-> initialization.node,
       condition |-> condition.node,
       increment |-> increment.node,
       body |-> bodyNode.node], bodyNode)

\* Lines 328-333.
forBody(toks, initialization, condition, increment) ==
    IF ~InRange(toks, increment)
       \/ Tok(toks, increment).type # "CLOSE_PAREN"
    THEN R(ErrorNode("Expected ')' after for increment"), increment)
    ELSE forNode(initialization, condition, increment,
                 parseStatement(toks, Adv(increment)))

\* Lines 323-327.
forIncrement(toks, initialization, condition) ==
    forBody(toks, initialization, condition,
            parseExpression(toks, SkipSemicolon(toks, condition)))

\* Lines 318-322.
forCondition(toks, initialization) ==
    forIncrement(toks, initialization,
                 parseExpression(toks, SkipSemicolon(toks, initialization)))

\* Lines 305-317.
parseForStatement(toks, st) ==
    LET st1 == Adv(st)
        st2 == Adv(st1)
    IN  IF ~InRange(toks, st1) \/ Tok(toks, st1).type # "OPEN_PAREN"
        THEN R(ErrorNode("Expected '(' after for"), st1)
        ELSE IF InRange(toks, st2) /\ isTypeSpecifier(Tok(toks, st2))
        THEN forCondition(toks, parseDeclaration(toks, st2, FALSE))
        ELSE forCondition(toks, parseExpression(toks, st2))

\* Lines 358-367: the declarator is pushed; then the loop goes on after a
\* comma and ends otherwise, past a ';' when expectSemicolon.
declarationNext(toks, expectSemicolon, variables, varName, initializer) ==
    LET st2 == initializer
        variables1 == Append(variables,
                             [type |-> "VariableDeclarator", name |-> varName,
                              initializer |-> initializer.node])
    IN  IF ~InRange(toks, st2) THEN [list |-> variables1, st |-> st2]
        ELSE IF Tok(toks, st2).value = <<",">>
        THEN declarationLoop(toks, Adv(st2), expectSemicolon, variables1)
        ELSE IF expectSemicolon /\ IsSemicolon(toks, st2)
        THEN [list |-> variables1, st |-> Adv(st2)]
        ELSE [list |-> variables1, st |-> st2]

\* Lines 347-357: the while (true) loop of parseDeclaration.
declarationLoop(toks, st, expectSemicolon, variables) ==
    IF ~InRange(toks, st) \/ Tok(toks, st).type # "IDENTIFIER"
    THEN [list |-> variables, st |-> st]
    ELSE
    LET varName == Tok(toks, st).value
        st1 == Adv(st)
    IN  IF InRange(toks, st1) /\ Tok(toks, st1).value = <<"=">>
        THEN declarationNext(toks, expectSemicolon, variables, varName,
                             parseExpression(toks, Adv(st1)))
        ELSE declarationNext(toks, expectSemicolon, variables, varName,
                             R(NullNode, st1))

\* Lines 369-373.
declarationNode(varType, l) ==
    R([type |-> "DeclarationStatement", varType |-> varType,
       variables |-> l.list], l.st)

\* Lines 343-346.
parseDeclaration(toks, st, expectSemicolon) ==
    IF ~InRange(toks, st) THEN R(NullNode, Throw(st))
    ELSE declarationNode(Tok(toks, st).value,
                         declarationLoop(toks, Adv(st), expectSemicolon, <<>>))

\* Lines 378-381.
expressionStatementEnd(toks, expr) ==
    R([type |-> "ExpressionStatement", expression |-> expr.node],
      SkipSemicolon(toks, expr))

\* Lines 376-377.
parseExpressionStatement(toks, st) ==
    expressionStatementEnd(toks, parseExpression(toks, st))

\* Lines 384-386.
parseExpression(toks, st) == parseAssignment(toks, st)

\* Line 394.
assignmentNode(op, left, right) ==
    R([type |-> "AssignmentExpression", operator |-> op,
       left |-> left.node, right |-> right.node], right)

\* The right side parsed as an equality, so that a second = is left over.
assignmentEnd_NotRecursive(toks, left) ==
    IF /\ left.cur < Len(toks)
       /\ ~Halted(left)
       /\ Tok(toks, left).value = <<"=">>
    THEN assignmentNode(Tok(toks, left).value, left,
                        parseEquality(toks, Adv(left)))
    ELSE left

\* Lines 390-396.
assignmentEnd(toks, left) ==
    IF /\ left.cur < Len(toks)
       /\ ~Halted(left)
       /\ Tok(toks, left).value = <<"=">>
    THEN assignmentNode(Tok(toks, left).value, left,
                        parseAssignment(toks, Adv(left)))
    ELSE left

\* Lines 388-389.
parseAssignment(toks, st) == assignmentEnd(toks, parseEquality(toks, st))

\* Lines 406, 417, 429 and 443.
binaryNode(op, left, right) ==
    R([type |-> "BinaryExpression", operator |-> op,
       left |-> left.node, right |-> right.node], right)

\* Lines 401-407.
equalityLoop(toks, left) ==
    IF /\ left.cur < Len(toks)
       /\ ~Halted(left)
       /\ Tok(toks, left).value \in {<<"=","=">>, <<"!","=">>}
    THEN equalityLoop(toks, binaryNode(Tok(toks, left).value, left,
                                       parseRelational(toks, Adv(left))))
    ELSE left

\* Lines 399-409.
parseEquality(toks, st) == equalityLoop(toks, parseRelational(toks, st))

\* Lines 413-418.
relationalLoop(toks, left) ==
    IF /\ left.cur < Len(toks)
       /\ ~Halted(left)
       /\ Tok(toks, left).value \in {<<"<">>, <<">">>, <<"<","=">>, <<">","=">>}
    THEN relationalLoop(toks, binaryNode(Tok(toks, left).value, left,
                                         parseAdditive(toks, Adv(left))))
    ELSE left

\* Lines 411-420.
parseRelational(toks, st) == relationalLoop(toks, parseAdditive(toks, st))

\* Lines 424-430.
additiveLoop(toks, left) ==
    IF /\ left.cur < Len(toks)
       /\ ~Halted(left)
       /\ Tok(toks, left).value \in {<<"+">>, <<"-">>}
    THEN additiveLoop(toks, binaryNode(Tok(toks, left).value, left,
                                       parseMultiplicative(toks, Adv(left))))
    ELSE left

\* The additive level over unary operands, without the multiplicative level.
parseAdditive_Flat(toks, st) == additiveLoop(toks, parseUnary(toks, st))

\* Lines 422-432.
parseAdditive(toks, st) == additiveLoop(toks, parseMultiplicative(toks, st))

\* Lines 436-444.
multiplicativeLoop(toks, left) ==
    IF /\ left.cur < Len(toks)
       /\ ~Halted(left)
       /\ Tok(toks, left).value \in {<<"*">>, <<"/">>, <<"%">>}
    THEN multiplicativeLoop(toks, binaryNode(Tok(toks, left).value, left,
                                             parseUnary(toks, Adv(left))))
    ELSE left

\* Lines 434-446.
parseMultiplicative(toks, st) == multiplicativeLoop(toks, parseUnary(toks, st))

\* Line 454.
prefixNode(op, argument) ==
    R([type |-> "PrefixExpression", operator |-> op,
       argument |-> argument.node], argument)

\* Lines 448-457.
parseUnary(toks, st) ==
    IF InRange(toks, st) /\ Tok(toks, st).value \in {<<"+","+">>, <<"-","-">>}
    THEN prefixNode(Tok(toks, st).value, parseUnary(toks, Adv(st)))
    ELSE parsePostfix(toks, st)

\* Lines 461-466.
postfixLoop(toks, node) ==
    IF /\ node.cur < Len(toks)
       /\ ~Halted(node)
       /\ Tok(toks, node).value \in {<<"+","+">>, <<"-","-">>}
    THEN postfixLoop(toks, R([type |-> "PostfixExpression",
                              operator |-> Tok(toks, node).value,
                              argument |-> node.node], Adv(node)))
    ELSE node

\* Lines 459-468.
parsePostfix(toks, st) == postfixLoop(toks, parsePrimary(toks, st))

\* Lines 492-495, and the next test of the loop: arg is pushed unless it is
\* null, and a comma after it is skipped.
argumentNext(toks, st, args, arg) ==
    LET args1 == IF arg.node.type # "null" THEN Append(args, arg.node) ELSE args
        st1 == IF InRange(toks, arg) /\ Tok(toks, arg).value = <<",">>
               THEN Adv(arg) ELSE arg
    IN  IF Halted(st1) THEN [list |-> args1, st |-> st1]
        ELSE IF st1.cur = st.cur THEN [list |-> args1, st |-> Stall(st1)]
        ELSE argumentLoop(toks, st1, args1)

\* Lines 490-496: the argument loop of a function call.
argumentLoop(toks, st, args) ==
    IF InRange(toks, st) /\ Tok(toks, st).type # "CLOSE_PAREN"
    THEN argumentNext(toks, st, args, parseExpression(toks, st))
    ELSE [list |-> args, st |-> st]

\* Lines 497-500.
callEnd(toks, name, l) ==
    R([type |-> "FunctionCall", name |-> name, arguments |-> l.list],
      IF InRange(toks, l.st) /\ Tok(toks, l.st).type = "CLOSE_PAREN"
      THEN Adv(l.st) ELSE l.st)

parenEnd_Backtrack(toks, expr) ==
    R(expr.node,
      IF InRange(toks, expr) /\ Tok(toks, expr).type = "CLOSE_PAREN"
      THEN Adv(expr) ELSE Adv_Back(expr))

\* Lines 508-511.
parenEnd(toks, expr) ==
    R(expr.node,
      IF InRange(toks, expr) /\ Tok(toks, expr).type = "CLOSE_PAREN"
      THEN Adv(expr) ELSE expr)

\* The choice of the primary with identifier tokens only taken for names: a
\* keyword falls through to Unknown.
primaryOf_IdentifierOnly(toks, st, token) ==
    IF \/ token.type = "SEPARATOR" /\ token.value = <<";">>
       \/ token.type = "CLOSE_PAREN"
    THEN R(NullNode, st)
    ELSE IF token.type = "NUMBER" \/ token.type = "STRING_LITERAL"
    THEN R([type |-> "Literal", value |-> token.value], Adv(st))
    ELSE IF token.type = "IDENTIFIER"
    THEN LET st1 == Adv(st)
         IN  IF InRange(toks, st1) /\ Tok(toks, st1).type = "OPEN_PAREN"
             THEN callEnd(toks, token.value, argumentLoop(toks, Adv(st1), <<>>))
             ELSE R([type |-> "Identifier", name |-> token.value], st1)
    ELSE IF token.type = "OPEN_PAREN"
    THEN parenEnd(toks, parseExpression(toks, Adv(st)))
    ELSE R([type |-> "Unknown", value |-> token.value], Adv(st))

\* The choice of the primary with a fallback that leaves the cursor where it
\* is.
primaryOf_NoAdvance(toks, st, token) ==
    IF \/ token.type = "SEPARATOR" /\ token.value = <<";">>
       \/ token.type = "CLOSE_PAREN"
    THEN R(NullNode, st)
    ELSE IF token.type = "NUMBER" \/ token.type = "STRING_LITERAL"
    THEN R([type |-> "Literal", value |-> token.value], Adv(st))
    ELSE IF \/ token.type = "IDENTIFIER"
            \/ token.type = "KEYWORD" /\ ~isTypeSpecifier(token)
    THEN LET st1 == Adv(st)
         IN  IF InRange(toks, st1) /\ Tok(toks, st1).type = "OPEN_PAREN"
             THEN callEnd(toks, token.value, argumentLoop(toks, Adv(st1), <<>>))
             ELSE R([type |-> "Identifier", name |-> token.value], st1)
    ELSE IF token.type = "OPEN_PAREN"
    THEN parenEnd(toks, parseExpression(toks, Adv(st)))
    ELSE R([type |-> "Unknown", value |-> token.value], st)

\* Lines 472-516: the choice of the primary by the token at the cursor.
primaryOf(toks, st, token) ==
    IF \/ token.type = "SEPARATOR" /\ token.value = <<";">>
       \/ token.type = "CLOSE_PAREN"
    THEN R(NullNode, st)
    ELSE IF token.type = "NUMBER" \/ token.type = "STRING_LITERAL"
    THEN R([type |-> "Literal", value |-> token.value], Adv(st))
    ELSE IF \/ token.type = "IDENTIFIER"
            \/ token.type = "KEYWORD" /\ ~isTypeSpecifier(token)
    THEN LET st1 == Adv(st)
         IN  IF InRange(toks, st1) /\ Tok(toks, st1).type = "OPEN_PAREN"
             THEN callEnd(toks, token.value, argumentLoop(toks, Adv(st1), <<>>))
             ELSE R([type |-> "Identifier", name |-> token.value], st1)
    ELSE IF token.type = "OPEN_PAREN"
    THEN parenEnd(toks, parseExpression(toks, Adv(st)))
    ELSE R([type |-> "Unknown", value |-> token.value], Adv(st))

\* Lines 470-472.
parsePrimary(toks, st) ==
    IF ~InRange(toks, st) THEN R(NullNode, st)
    ELSE primaryOf(toks, st, Tok(toks, st))

Running(c, tr) == [cur |-> c, trace |-> tr, halt |-> "ok", node |-> NullNode]

\* Lines 156-179 as one function of the tokens, for comparing the trees of
\* two token sequences: the loop of parseProgram from the cursor of st on.
RECURSIVE programLoop(_, _, _)

\* Lines 172-173.
programNext(toks, nodes, funcNode) ==
    IF Halted(funcNode) THEN [list |-> nodes, st |-> funcNode]
    ELSE programLoop(toks, funcNode, Append(nodes, funcNode.node))

\* Lines 160-177.
programLoop(toks, st, nodes) ==
    IF ~InRange(toks, st) THEN [list |-> nodes, st |-> st]
    ELSE IF Tok(toks, st).type = "COMMENT"
    THEN programLoop(toks, Adv(st), nodes)
    ELSE IF Tok(toks, st).type = "PREPROCESSOR"
    THEN programLoop(toks, Adv(st),
                     Append(nodes, [type |-> "PreprocessorDirective",
                                   value |-> Trim(Tok(toks, st).value)]))
    ELSE IF isTypeSpecifier(Tok(toks, st))
    THEN programNext(toks, nodes, parseFunctionDefinition(toks, st))
    ELSE programLoop(toks, Adv(st), nodes)

\* Line 178.
programNode(l) == R([type |-> "Program", body |-> l.list], l.st)

\* Lines 152-158.
parse(toks) == programNode(programLoop(toks, Running(0, <<0>>), <<>>))

\* The entry of parse with the cursor and the body left as they are.
ParseStart_NoReset ==
    /\ pc = "parse"
    /\ current' = current
    /\ trace' = <<current>>
    /\ body' = body
    /\ pc' = "program"
    /\ UNCHANGED <<tokens, ast>>
    /\ UNCHANGED lexVars
    /\ UNCHANGED uiVars

\* Lines 152-158: parse calls parseProgram, which resets the cursor.
ParseStart ==
    /\ pc = "parse"
    /\ current' = 0
    /\ trace' = <<0>>
    /\ body' = <<>>
    /\ pc' = "program"
    /\ UNCHANGED <<tokens, ast>>
    /\ UNCHANGED lexVars
    /\ UNCHANGED uiVars

\* Lines 163-166: a comment at top level is skipped.
ProgramComment ==
    /\ pc = "program"
    /\ current < Len(tokens)
    /\ tokens[current + 1].type = "COMMENT"
    /\ current' = current + 1
    /\ trace' = Append(trace, current + 1)
    /\ UNCHANGED <<tokens, body, ast, pc>>
    /\ UNCHANGED lexVars
    /\ UNCHANGED uiVars

\* Lines 168-170.
ProgramPreprocessor ==
    /\ pc = "program"
    /\ current < Len(tokens)
    /\ tokens[current + 1].type = "PREPROCESSOR"
    /\ body' = Append(body, [type |-> "PreprocessorDirective",
                             value |-> Trim(tokens[current + 1].value)])
    /\ current' = current + 1
    /\ trace' = Append(trace, current + 1)
    /\ UNCHANGED <<tokens, ast, pc>>
    /\ UNCHANGED lexVars
    /\ UNCHANGED uiVars

\* Lines 172-173: funcNode is pushed when parseFunctionDefinition returns
\* it; the call may instead throw or never return.
FunctionReturned(funcNode) ==
    /\ current' = funcNode.cur
    /\ trace' = funcNode.trace
    /\ IF funcNode.halt = "ok"
       THEN body' = Append(body, funcNode.node) /\ pc' = pc
       ELSE body' = body /\ pc' = funcNode.halt

\* Lines 171-173: a type specifier starts a function definition.
ProgramFunction ==
    /\ pc = "program"
    /\ current < Len(tokens)
    /\ tokens[current + 1].type \notin {"COMMENT", "PREPROCESSOR"}
    /\ isTypeSpecifier(tokens[current + 1])
    /\ FunctionReturned(parseFunctionDefinition(tokens, Running(current, trace)))
    /\ UNCHANGED <<tokens, ast>>
    /\ UNCHANGED lexVars
    /\ UNCHANGED uiVars

\* Lines 174-176: any other token is skipped.
ProgramSkip ==
    /\ pc = "program"
    /\ current < Len(tokens)
    /\ tokens[current + 1].type \notin {"COMMENT", "PREPROCESSOR"}
    /\ ~isTypeSpecifier(tokens[current + 1])
    /\ current' = current + 1
    /\ trace' = Append(trace, current + 1)
    /\ UNCHANGED <<tokens, body, ast, pc>>
    /\ UNCHANGED lexVars
    /\ UNCHANGED uiVars

\* Lines 160 and 178: the loop ends and the Program node is returned.
ProgramReturn ==
    /\ pc = "program"
    /\ current >= Len(tokens)
    /\ ast' = [type |-> "Program", body |-> body]
    /\ pc' = "parsed"
    /\ UNCHANGED <<tokens, current, body, trace>>
    /\ UNCHANGED lexVars
    /\ UNCHANGED uiVars

NextParse ==
    \/ ParseStart
    \/ ProgramComment
    \/ ProgramPreprocessor
    \/ ProgramFunction
    \/ ProgramSkip
    \/ ProgramReturn

-----------------------------------------------------------------------------
(* The source texts explored: every string of at most MaxLen characters    *)
(* over LexAlphabet, and the longer texts of LexSamples.                   *)

LexAlphabet ==
    {"i", "f", "1", "_", "+", "=", "/", "*", "\"", "\\", " ", "\n", "#", ";",
     "(", "@"}

SeqsUpTo(S, n) == UNION {[1..k -> S] : k \in 0..n}

LexSamples ==
    Keywords \cup
    { <<"i","n","t","_","x">>,
      <<"f","o","r","m","a","t">>,
      <<"p","r","i","n","t">>,
      <<"0","x","1","F">>,
      <<"1","e","5">>,
      <<"1","2","a","b">>,
      <<"a","+","b">>,
      <<"a","=","=","b">>,
      <<"#","i","/","*","*","/","f">>,
      <<"/","/","/","*","*","/","f">>,
      <<"\"","/","*","*","/","\"">>,
      <<"i","/","*","\n","*","/","f">>,
      <<"/","*","i","*","/","1","/","*","f","*","/">>,
      <<"\"","\\","\"","\"","i">>,
      str_int \o <<" ">> \o str_int \o <<"_","x"," ">> \o <<"f","o","r","m","a","t">> }

LexInputs == SeqsUpTo(LexAlphabet, MaxLen) \cup LexSamples

\* part_000 lines 547 and 550-554: the state of the Index component when it
\* is mounted. The empty string is the empty sequence, null is NullNode.
useState ==
    /\ codeInput = <<>>
    /\ semanticAnalysis = NullNode
    /\ intermediateCode = <<>>
    /\ optimizedCode = <<>>
    /\ assemblyCode = <<>>
    /\ activeTab = "tokens"

InitLex ==
    /\ inputCode \in LexInputs
    /\ code = inputCode
    /\ lines = <<>>
    /\ lineIdx = 0
    /\ i = 0
    /\ tokens = <<>>
    /\ spans = <<>>
    /\ pc = "tokenize"
    /\ current = 0
    /\ body = <<>>
    /\ ast = NullNode
    /\ trace = <<>>
    /\ useState

SpecLex == InitLex /\ [][NextLex]_vars

-----------------------------------------------------------------------------
(* The token sequences explored: one of ParsePrefixes followed by at most  *)
(* MaxTail tokens of ParseAlphabet, and the sequences of ParseSamples.     *)
(* An opening parenthesis comes from a prefix or a sample only.            *)

K(v) == Token("KEYWORD", v)
Id(v) == Token("IDENTIFIER", <<v>>)
Num(v) == Token("NUMBER", <<v>>)
Op(v) == Token("OPERATOR", v)
Sep(v) == Token("SEPARATOR", <<v>>)
LParen == Token("OPEN_PAREN", <<"(">>)
RParen == Token("CLOSE_PAREN", <<")">>)
LBrace == Token("OPEN_BRACE", <<"{">>)
RBrace == Token("CLOSE_BRACE", <<"}">>)

LineComment == Token("COMMENT", <<"/","/">>)

\* The tokens of a function body up to a place where a statement starts: in
\* the compound body, and as the body of an if, an else and a for.
StatementStarts ==
    { <<>>,
      <<Id("a"), Sep(";")>>,
      <<K(str_if), LParen, Id("a"), RParen>>,
      <<K(str_if), LParen, Id("a"), RParen, Id("a"), Sep(";"), K(str_else)>>,
      <<K(str_for), LParen, Sep(";"), Sep(";"), RParen>> }

ParseAlphabet ==
    { K(str_int), K(str_return), K(str_else),
      Id("a"), Num("1"), Op(<<"=">>), Op(<<"+">>), Op(<<"+","+">>),
      Sep(";"), Sep(","), RParen, LBrace, RBrace, LineComment }

FunctionHead == <<K(str_int), Id("f"), LParen, RParen, LBrace>>

ParsePrefixes ==
    { <<>>,
      <<K(str_int), Id("f"), LParen>>,
      FunctionHead,
      FunctionHead \o <<LParen>>,
      FunctionHead \o <<Id("a"), LParen>>,
      FunctionHead \o <<K(str_if), LParen>>,
      FunctionHead \o <<K(str_for), LParen>> }

ParseSamples ==
    { <<Token("PREPROCESSOR", <<"#","a">>)>> \o FunctionHead \o
        <<Token("UNDEFINED", <<"@">>), Sep(";"), RBrace>>,
      FunctionHead \o <<K(str_return), Num("0"), Sep(";"), RBrace>>,
      <<K(str_int), Id("f"), LParen, K(str_int), Id("a"), LBrace,
        K(str_return), Id("a"), Sep(";"), RBrace>>,
      FunctionHead \o
        <<Id("a"), Op(<<"=","=">>), Id("b"), Op(<<"<">>), Id("c"),
          Op(<<"*">>), Num("2"), Sep(";"), RBrace>>,
      FunctionHead \o <<K(str_if), Id("a"), RBrace>>,
      FunctionHead \o <<K(str_for), Id("a"), RBrace>>,
      FunctionHead \o
        <<K(str_if), LParen, Id("a"), RParen, Id("a"), Sep(";"),
          K(str_else), Id("a"), Sep(";"), RBrace>>,
      <<K(str_int), Sep(";")>> \o FunctionHead \o
        <<K(str_if), LParen, Id("a"), Id("a"), RBrace>> }
    \cup {FunctionHead \o pre \o <<LineComment, Id("a"), Sep(";"), RBrace>> :
             pre \in StatementStarts}

ParseInputs ==
    {p \o t : p \in ParsePrefixes, t \in SeqsUpTo(ParseAlphabet, MaxTail)}
        \cup ParseSamples

InitParse ==
    /\ inputCode = <<>>
    /\ code = <<>>
    /\ lines = <<>>
    /\ lineIdx = 0
    /\ i = 0
    /\ tokens \in ParseInputs
    /\ spans = <<>>
    /\ pc = "parse"
    /\ current = 0
    /\ body = <<>>
    /\ ast = NullNode
    /\ trace = <<>>
    /\ useState

SpecParse == InitParse /\ [][NextParse]_vars

-----------------------------------------------------------------------------
(* handleParse: tokenize the source text, then parse the tokens it returns. *)
(* The source texts are function definitions written out character by      *)
(* character.                                                              *)

\* Lines 575-579: the tokens tokenize returned are handed to parse.
handleParse ==
    /\ pc = "lexed"
    /\ pc' = "parse"
    /\ UNCHANGED <<inputCode, code, lines, lineIdx, i, tokens, spans>>
    /\ UNCHANGED <<current, body, ast, trace>>
    /\ UNCHANGED uiVars

Next == NextLex \/ handleParse \/ NextParse

Sp == <<" ">>

TypeSpecifiers == {str_int, str_char, str_float, str_double, str_void}

FunctionNames == { <<"m","a","i","n">>, <<"f">>, <<"_","x","1">> }

Numbers ==
    { <<"0">>, <<"4","2">>, <<"0","x","1","F">>, <<"1","e","5">>,
      <<"1",".","5">> }

\* T name(){ return N; }
ReturnSource(T, name, N) ==
    T \o Sp \o name \o <<"(", ")", "{", " ">> \o str_return \o Sp \o N
      \o <<";", " ", "}">>

ReturnSources ==
    {ReturnSource(T, name, N) :
        T \in TypeSpecifiers, name \in FunctionNames, N \in Numbers}

\* int f(){ stmts }
BodySource(stmts) ==
    str_int \o Sp \o <<"f", "(", ")", "{">> \o stmts \o <<"}">>

Stmt123 == <<"1", "+", "2", "*", "3", ";">>

Stmt123Sources ==
    {BodySource(pre \o Stmt123 \o post) :
        pre \in { <<>>, Sp, <<"a", ";", " ">> },
        post \in { <<>>, Sp, <<" ", "a", ";">> }}

PipeSamples ==
    { BodySource(<<" ","1"," ","+"," ","2"," ","*"," ","3"," ",";"," ">>),
      <<"#","i","\n","/","/","f","\n",";"," ">>
        \o BodySource(<<" ","\"","i","\""," ","@",";"," ">>),
      <<"/","*","i","*","/">> \o BodySource(<<"i","f","(","a",")","a","=","1",";">>) }

PipeInputs == ReturnSources \cup Stmt123Sources \cup PipeSamples

Init ==
    /\ inputCode \in PipeInputs
    /\ code = inputCode
    /\ lines = <<>>
    /\ lineIdx = 0
    /\ i = 0
    /\ tokens = <<>>
    /\ spans = <<>>
    /\ pc = "tokenize"
    /\ current = 0
    /\ body = <<>>
    /\ ast = NullNode
    /\ trace = <<>>
    /\ useState

Spec == Init /\ [][Next]_vars

-----------------------------------------------------------------------------
(* The grammar rules as functions of the token sequence and the cursor:    *)
(* one call of parsePrimary, parseExpression or parseFunctionDefinition on *)
(* a token sequence drawn from a bounded set.                              *)

MaxPrimary == 2
MaxHeader == 5
MaxDeclaration == 4
MaxBlock == 2

\* A rule has returned: its node, and the cursor where it left it.
RuleReturned(rule, r) ==
    /\ ast' = r.node
    /\ current' = r.cur
    /\ trace' = r.trace
    /\ pc' = IF r.halt = "ok" THEN rule ELSE r.halt
    /\ UNCHANGED <<tokens, body>>
    /\ UNCHANGED lexVars
    /\ UNCHANGED uiVars

\* Lines 470-516.
callParsePrimary ==
    /\ pc = "call parsePrimary"
    /\ RuleReturned("parsePrimary",
                    parsePrimary(tokens, Running(current, <<current>>)))

\* Lines 384-386.
callParseExpression ==
    /\ pc = "call parseExpression"
    /\ RuleReturned("parseExpression",
                    parseExpression(tokens, Running(current, <<current>>)))

\* Lines 171-172 and 181-231: parseProgram calls parseFunctionDefinition
\* with a type specifier at the cursor.
callParseFunctionDefinition ==
    /\ pc = "call parseFunctionDefinition"
    /\ current < Len(tokens)
    /\ isTypeSpecifier(tokens[current + 1])
    /\ RuleReturned("parseFunctionDefinition",
                    parseFunctionDefinition(tokens, Running(current, <<current>>)))

\* Lines 266-267, 312-313 and 343-374: parseStatement calls parseDeclaration
\* with expectSemicolon true, parseForStatement with false, both with a type
\* specifier at the cursor.
callParseDeclaration(expectSemicolon) ==
    /\ pc = (IF expectSemicolon THEN "call parseDeclaration true"
                                ELSE "call parseDeclaration false")
    /\ current < Len(tokens)
    /\ isTypeSpecifier(tokens[current + 1])
    /\ RuleReturned(IF expectSemicolon THEN "parseDeclaration true"
                                       ELSE "parseDeclaration false",
                    parseDeclaration(tokens, Running(current, <<current>>),
                                     expectSemicolon))

\* Lines 241 and 252-274: parseCompoundStatement, parseIfStatement and
\* parseForStatement call parseStatement with a token at the cursor.
callParseStatement ==
    /\ pc = "call parseStatement"
    /\ current < Len(tokens)
    /\ RuleReturned("parseStatement",
                    parseStatement(tokens, Running(current, <<current>>)))

NextRules ==
    \/ callParsePrimary
    \/ callParseExpression
    \/ callParseFunctionDefinition
    \/ callParseDeclaration(TRUE)
    \/ callParseDeclaration(FALSE)
    \/ callParseStatement

\* One token of every kind, the keywords of both sorts.
PrimaryAlphabet ==
    { Num("1"), Token("STRING_LITERAL", <<"\"", "\"">>), Id("a"),
      K(str_return), K(str_int), LParen, RParen, Sep(";"), Sep(","),
      Op(<<"+">>), LBrace, RBrace, Token("UNDEFINED", <<"@">>),
      Token("COMMENT", <<"/","/">>), Token("PREPROCESSOR", <<"#","a">>) }

PrimaryInputs == SeqsUpTo(PrimaryAlphabet, MaxPrimary)

Primaries == { Id("a"), Id("b"), Num("1") }

EqualityOps == { <<"=","=">>, <<"!","=">> }
RelationalOps == { <<"<">>, <<">">>, <<"<","=">>, <<">","=">> }
AdditiveOps == { <<"+">>, <<"-">> }
MultiplicativeOps == { <<"*">>, <<"/">>, <<"%">> }
BinaryOps == EqualityOps \cup RelationalOps \cup AdditiveOps \cup MultiplicativeOps

\* a op1 b op2 c, alone or before a semicolon
ExpressionInputs ==
    {<<a, Op(op1), b, Op(op2), c>> \o end :
        a \in Primaries, b \in Primaries, c \in Primaries,
        op1 \in BinaryOps \cup { <<"=">> }, op2 \in BinaryOps \cup { <<"=">> },
        end \in { <<>>, <<Sep(";")>> }}

HeaderAlphabet == { K(str_int), Id("f"), LParen, RParen, LBrace, Sep(",") }

HeaderSamples ==
    { <<K(str_int), Id("f"), LParen, K(str_int), Id("a"), LBrace,
        K(str_return), Id("a"), Sep(";"), RBrace>>,
      <<K(str_int), Id("f"), LParen, K(str_int), RParen, LBrace, RBrace>>,
      <<K(str_int), Id("f"), LParen, K(str_void), RParen, LBrace, RBrace>>,
      <<K(str_int), Id("f"), LParen, K(str_int), Sep(","), K(str_int), Id("b"),
        RParen, LBrace, RBrace>>,
      <<K(str_int), Id("f"), LParen, K(str_int), Id("a"), Sep(","),
        K(str_int), Id("b"), RParen, LBrace, RBrace>>,
      <<K(str_int), Id("f"), LParen, K(str_int), RParen, RParen, LBrace, RBrace>>,
      <<K(str_void), Id("f"), LParen, RParen, LBrace, RBrace>> }

HeaderInputs ==
    {<<K(str_int)>> \o t : t \in SeqsUpTo(HeaderAlphabet, MaxHeader)}
        \cup HeaderSamples

DeclarationAlphabet == { Id("a"), Op(<<"=">>), Num("1"), Sep(","), Sep(";") }

\* The declarators of a declaration: none, one, two, with and without
\* initializers.
DeclaratorLists ==
    { <<>>,
      <<Id("a")>>,
      <<Id("a"), Op(<<"=">>), Num("1")>>,
      <<Id("a"), Sep(","), Id("b")>>,
      <<Id("a"), Op(<<"=">>), Num("1"), Sep(","), Id("b")>>,
      <<Id("a"), Sep(","), Id("b"), Op(<<"=">>), Id("a"), Op(<<"+">>), Num("1")>> }

DeclarationInputs ==
    {<<K(str_int)>> \o t : t \in SeqsUpTo(DeclarationAlphabet, MaxDeclaration)}
        \cup {<<K(str_int)>> \o d \o <<Sep(";")>> \o rest :
                 d \in DeclaratorLists,
                 rest \in { <<>>, <<Id("a")>>, <<Sep(";")>>, <<RBrace>> }}

\* The keywords that are neither type specifiers nor the head of a statement
\* rule.
OtherKeywords == { str_while, str_else, str_include, str_define }

\* kw ( c ) { a ; } in a block
CallThenBlock(kw) ==
    <<LBrace, K(kw), LParen, Id("c"), RParen,
      LBrace, Id("a"), Sep(";"), RBrace, RBrace>>

SimpleStatements ==
    { <<Id("a"), Sep(";")>>,
      <<K(str_return), Num("1"), Sep(";")>>,
      <<LBrace, Id("a"), Sep(";"), RBrace>>,
      <<Sep(";")>> }

\* if ( a ) if ( b ) S1 else S2
NestedIf(S1, S2) ==
    <<K(str_if), LParen, Id("a"), RParen, K(str_if), LParen, Id("b"), RParen>>
        \o S1 \o <<K(str_else)>> \o S2

BlockAlphabet ==
    { Id("a"), Num("1"), Op(<<"=">>), Sep(";"), K(str_return), K(str_if),
      LParen, RParen, LBrace, RBrace }

\* { t } for the token sequences t up to MaxBlock tokens
Blocks == {<<LBrace>> \o t \o <<RBrace>> : t \in SeqsUpTo(BlockAlphabet, MaxBlock)}

StatementInputs ==
    {<<K(kw), Sep(";")>> : kw \in OtherKeywords}
        \cup {<<Id("a"), Op(<<"=">>), K(kw), Sep(";")>> : kw \in OtherKeywords}
        \cup {CallThenBlock(kw) : kw \in OtherKeywords}
        \cup {NestedIf(S1, S2) : S1 \in SimpleStatements, S2 \in SimpleStatements}
        \cup Blocks

InitRules ==
    /\ inputCode = <<>>
    /\ code = <<>>
    /\ lines = <<>>
    /\ lineIdx = 0
    /\ i = 0
    /\ spans = <<>>
    /\ body = <<>>
    /\ ast = NullNode
    /\ trace = <<>>
    /\ useState
    /\ \/ /\ pc = "call parsePrimary"
          /\ tokens \in PrimaryInputs
          /\ current \in 0..Len(tokens)
       \/ /\ pc = "call parseExpression"
          /\ tokens \in ExpressionInputs
          /\ current = 0
       \/ /\ pc = "call parseFunctionDefinition"
          /\ tokens \in HeaderInputs
          /\ current = 0
       \/ /\ pc \in {"call parseDeclaration true", "call parseDeclaration false"}
          /\ tokens \in DeclarationInputs
          /\ current = 0
       \/ /\ pc = "call parseStatement"
          /\ tokens \in StatementInputs
          /\ current = 0

SpecRules == InitRules /\ [][NextRules]_vars

-----------------------------------------------------------------------------
(* parse called again and again: a call that has returned or thrown is     *)
(* followed by a call on another token sequence, with the module-level     *)
(* cursor as the call before left it.                                      *)

AgainInputs ==
    ParseSamples \cup
    { <<>>,
      <<LineComment, Sep(";"), K(str_int)>>,
      <<K(str_int), Id("f"), LParen, K(str_int)>>,
      FunctionHead,
      FunctionHead \o <<RBrace>> \o FunctionHead \o <<Id("a"), Sep(";"), RBrace>> }

\* Lines 145 and 575-580: the next click calls parse on new tokens; current
\* is the module-level variable and keeps its value between the calls.
ParseAgain ==
    /\ pc \in {"parsed", "threw"}
    /\ tokens' \in AgainInputs
    /\ pc' = "parse"
    /\ UNCHANGED <<current, body, ast, trace>>
    /\ UNCHANGED lexVars
    /\ UNCHANGED uiVars

NextAgain == NextParse \/ ParseAgain

InitAgain ==
    /\ inputCode = <<>>
    /\ code = <<>>
    /\ lines = <<>>
    /\ lineIdx = 0
    /\ i = 0
    /\ tokens \in AgainInputs
    /\ spans = <<>>
    /\ pc = "parse"
    /\ current = 0
    /\ body = <<>>
    /\ ast = NullNode
    /\ trace = <<>>
    /\ useState

SpecAgain == InitAgain /\ [][NextAgain]_vars

-----------------------------------------------------------------------------
(* The Index component of the six-stage page (part_000): the textarea, the *)
(* six buttons and the tabs. A handler runs from its click to its return   *)
(* with nothing in between; pc is "idle" between two events and the name   *)
(* of the handler while one runs. The analyzer, the generators and the     *)
(* optimizer are imported from modules that are not part of the sources;   *)
(* each is a function of the tree it is given. Choosing a tab by hand      *)
(* (line 784) writes activeTab and nothing else, and is left out.          *)

\* The texts typed into the textarea: nothing, a function, a header without
\* a body, whose tree holds an error object, and a body on which parse does
\* not return.
CodeInputs ==
    { <<>>,
      ReturnSource(str_int, <<"f">>, <<"0">>),
      str_int \o Sp \o <<"f", "(", ")">>,
      BodySource(<<")">>) }

Handlers ==
    { "handleTokenize", "handleParse", "handleSemanticAnalysis",
      "handleIntermediateCodeGeneration", "handleCodeOptimization",
      "handleCodeGeneration" }

\* new SemanticAnalyzer().analyze(ast)
analyze(a) == [type |-> "SemanticAnalysis", ast |-> a]

\* formatTAC(new IntermediateCodeGenerator(...).generate(ast))
formatTAC(a) == <<"TAC", a>>

\* formatOptimizedCode(new CodeOptimizer(generate(ast)).optimize())
formatOptimizedCode(a) == <<"optimized", a>>

\* formatAssembly(new CodeGenerator(optimize()).generate())
formatAssembly(a) == <<"assembly", a>>

\* part_000 line 737: the text of the textarea is edited.
setCodeInput ==
    /\ pc = "idle"
    /\ codeInput' \in CodeInputs \ {codeInput}
    /\ UNCHANGED <<tokens, pc>>
    /\ UNCHANGED <<semanticAnalysis, intermediateCode, optimizedCode,
                   assemblyCode, activeTab>>
    /\ UNCHANGED lexVars
    /\ UNCHANGED parseVars

\* part_000 lines 744-774: one of the six buttons is clicked.
onClick ==
    /\ pc = "idle"
    /\ pc' \in Handlers
    /\ UNCHANGED tokens
    /\ UNCHANGED uiVars
    /\ UNCHANGED lexVars
    /\ UNCHANGED parseVars

\* part_000 lines 556-573.
handleTokenize ==
    /\ pc = "handleTokenize"
    /\ tokens' = tokenize(codeInput)
    /\ activeTab' = "tokens"
    /\ pc' = "idle"
    /\ UNCHANGED <<codeInput, semanticAnalysis, intermediateCode,
                   optimizedCode, assemblyCode>>
    /\ UNCHANGED lexVars
    /\ UNCHANGED parseVars

\* part_000 lines 577-580 and 598-601: the tokens and the tree are stored
\* when parse returns; the tokens alone when it throws, and the catch block
\* ends the handler; nothing when it does not return, and the page hangs.
parseStored(handler, newTokens, r) ==
    IF r.halt = "stalled"
    THEN /\ pc' = "stalled"
         /\ UNCHANGED <<tokens, current, ast, trace, activeTab, semanticAnalysis>>
    ELSE /\ pc' = "idle"
         /\ tokens' = newTokens
         /\ current' = r.cur
         /\ trace' = r.trace
         /\ IF r.halt = "threw"
            THEN UNCHANGED <<ast, activeTab, semanticAnalysis>>
            ELSE /\ ast' = r.node
                 /\ IF handler = "handleParse"
                    THEN /\ activeTab' = "ast"
                         /\ UNCHANGED semanticAnalysis
                    ELSE /\ activeTab' = "semantic"
                         /\ semanticAnalysis' = analyze(r.node)

tokensParsed(handler, newTokens) ==
    parseStored(handler, newTokens, parse(newTokens))

\* part_000 lines 575-594.
handleParseUI ==
    /\ pc = "handleParse"
    /\ tokensParsed("handleParse", tokenize(codeInput))
    /\ UNCHANGED <<codeInput, intermediateCode, optimizedCode, assemblyCode, body>>
    /\ UNCHANGED lexVars

\* part_000 lines 596-629.
handleSemanticAnalysis ==
    /\ pc = "handleSemanticAnalysis"
    /\ tokensParsed("handleSemanticAnalysis", tokenize(codeInput))
    /\ UNCHANGED <<codeInput, intermediateCode, optimizedCode, assemblyCode, body>>
    /\ UNCHANGED lexVars

\* part_000 lines 631-658.
handleIntermediateCodeGeneration ==
    /\ pc = "handleIntermediateCodeGeneration"
    /\ pc' = "idle"
    /\ IF ast = NullNode
       THEN UNCHANGED <<intermediateCode, activeTab>>
       ELSE /\ intermediateCode' = formatTAC(ast)
            /\ activeTab' = "intermediate"
    /\ UNCHANGED <<codeInput, semanticAnalysis, optimizedCode, assemblyCode>>
    /\ UNCHANGED tokens
    /\ UNCHANGED lexVars
    /\ UNCHANGED parseVars

\* Optimize without the test of intermediateCode.
handleCodeOptimization_NoGuard ==
    /\ pc = "handleCodeOptimization"
    /\ pc' = "idle"
    /\ optimizedCode' = formatOptimizedCode(ast)
    /\ activeTab' = "optimized"
    /\ UNCHANGED <<codeInput, semanticAnalysis, intermediateCode, assemblyCode>>
    /\ UNCHANGED tokens
    /\ UNCHANGED lexVars
    /\ UNCHANGED parseVars

\* part_000 lines 660-689.
handleCodeOptimization ==
    /\ pc = "handleCodeOptimization"
    /\ pc' = "idle"
    /\ IF intermediateCode = <<>>
       THEN UNCHANGED <<optimizedCode, activeTab>>
       ELSE /\ optimizedCode' = formatOptimizedCode(ast)
            /\ activeTab' = "optimized"
    /\ UNCHANGED <<codeInput, semanticAnalysis, intermediateCode, assemblyCode>>
    /\ UNCHANGED tokens
    /\ UNCHANGED lexVars
    /\ UNCHANGED parseVars

\* part_000 lines 691-722.
handleCodeGeneration ==
    /\ pc = "handleCodeGeneration"
    /\ pc' = "idle"
    /\ IF optimizedCode = <<>>
       THEN UNCHANGED <<assemblyCode, activeTab>>
       ELSE /\ assemblyCode' = formatAssembly(ast)
            /\ activeTab' = "assembly"
    /\ UNCHANGED <<codeInput, semanticAnalysis, intermediateCode, optimizedCode>>
    /\ UNCHANGED tokens
    /\ UNCHANGED lexVars
    /\ UNCHANGED parseVars

NextIndex ==
    \/ setCodeInput
    \/ onClick
    \/ handleTokenize
    \/ handleParseUI
    \/ handleSemanticAnalysis
    \/ handleIntermediateCodeGeneration
    \/ handleCodeOptimization
    \/ handleCodeGeneration

\* part_000 lines 547-554 and line 145.
InitIndex ==
    /\ inputCode = <<>>
    /\ code = <<>>
    /\ lines = <<>>
    /\ lineIdx = 0
    /\ i = 0
    /\ tokens = <<>>
    /\ spans = <<>>
    /\ pc = "idle"
    /\ current = 0
    /\ body = <<>>
    /\ ast = NullNode
    /\ trace = <<>>
    /\ useState

SpecIndex == InitIndex /\ [][NextIndex]_vars

-----------------------------------------------------------------------------
(* Properties of parse.                                                    *)

InParse == pc \in {"program", "parsed", "threw", "stalled"}

\* The nodes a node holds in its fields.
Children(n) ==
    CASE n.type = "Program" -> {n.body[k] : k \in 1..Len(n.body)}
      [] n.type = "FunctionDeclaration" ->
            {n.body} \cup {n.parameters[k] : k \in 1..Len(n.parameters)}
      [] n.type = "CompoundStatement" -> {n.body[k] : k \in 1..Len(n.body)}
      [] n.type = "IfStatement" -> {n.condition, n.then, n.else}
      [] n.type = "ForStatement" ->
            {n.initialization, n.condition, n.increment, n.body}
      [] n.type = "DeclarationStatement" ->
            {n.variables[k] : k \in 1..Len(n.variables)}
      [] n.type = "VariableDeclarator" -> {n.initializer}
      [] n.type \in {"ReturnStatement", "ExpressionStatement"} -> {n.expression}
      [] n.type \in {"AssignmentExpression", "BinaryExpression"} -> {n.left, n.right}
      [] n.type \in {"PrefixExpression", "PostfixExpression"} -> {n.argument}
      [] n.type = "FunctionCall" -> {n.arguments[k] : k \in 1..Len(n.arguments)}
      [] OTHER -> {}

\* The nodes of the tree under n, n included.
RECURSIVE NodesOf(_)
NodesOf(n) == {n} \cup UNION {NodesOf(c) : c \in Children(n)}

\* The tree built so far.
Tree == [type |-> "Program", body |-> body]

ErrorMessages ==
    {"Expected function name",
     "Expected '(' after function name",
     "Unexpected end of input while parsing function parameters",
     "Expected '{' at beginning of function body",
     "Expected '{' at beginning of compound statement",
     "Expected '}' at end of compound statement",
     "Expected '(' after if",
     "Expected ')' after if condition",
     "Expected '(' after for",
     "Expected ')' after for increment"}

\* C1: parse terminates on every token sequence and returns a Program node:
\* no parser loop runs an iteration that leaves the cursor where it was
\* with the loop going on.
C1_ParseTerminates == pc # "stalled"

\* C2: at every point of a parse call, and when it returns, the cursor is
\* between 0 and the number of tokens.
C2_CursorInBounds ==
    InParse =>
        /\ 0 <= current /\ current <= Len(tokens)
        /\ \A k \in 1..Len(trace) : 0 <= trace[k] /\ trace[k] <= Len(tokens)

\* C3: within one parse call the cursor never decreases: it is 0 on entry
\* and every later assignment raises it by one.
C3_CursorMonotonic ==
    InParse =>
        /\ trace[1] = 0
        /\ current = trace[Len(trace)]
        /\ \A k \in 1..(Len(trace) - 1) : trace[k] <= trace[k + 1]
        /\ \A k \in 1..(Len(trace) - 1) : trace[k + 1] = trace[k] + 1

C3_Witness ==
    /\ pc = "parsed"
    /\ Len(trace) >= 6
    /\ \E k \in 1..Len(body) : body[k].type = "FunctionDeclaration"

\* C4: no grammar rule throws; what parseProgram holds is a directive, a
\* function or an error node, an error node anywhere in the tree carries one
\* of the rules' messages, and parseProgram goes on after an error node.
C4_ErrorsAreData ==
    /\ pc # "threw"
    /\ \A k \in 1..Len(body) :
         body[k].type \in {"PreprocessorDirective", "FunctionDeclaration", "Error"}
    /\ \A n \in NodesOf(Tree) : n.type = "Error" => n.error \in ErrorMessages
    /\ ast # NullNode => ast = Tree /\ pc = "parsed"

C4_Witness ==
    /\ pc = "parsed"
    /\ Len(body) >= 2
    /\ body[1].type = "Error"
    /\ \E n \in NodesOf(body[2]) : n.type = "Error" /\ n # body[2]

-----------------------------------------------------------------------------
(* Properties of tokenize.                                                 *)

TokenIndices == 1..Len(tokens)

LinePass == {k \in TokenIndices : spans[k].pass = "line"}

BlockPass == {k \in TokenIndices : spans[k].pass = "block"}

InBlockComment(p) == \E k \in BlockPass : spans[k].from <= p /\ p < spans[k].to

\* The steps tokenize has left at most: one for each character and two for
\* each line still to scan, and the return.
RECURSIVE LinesLeft(_, _)
LinesLeft(ls, n) ==
    IF n >= Len(ls) THEN 0 ELSE Len(ls[n + 1]) + 2 + LinesLeft(ls, n + 1)

StepsLeft ==
    CASE pc = "tokenize" -> 2 * Len(inputCode) + 4
      [] pc = "line" -> 1 + LinesLeft(lines, lineIdx)
      [] pc = "scan" -> 2 + LinesLeft(lines, lineIdx + 1) + Max(0, Len(Line) - i)
      [] OTHER -> 0

\* C5: tokenize terminates on every input and never fails: each iteration
\* of the line scan moves i forward by at least one or ends the line; every
\* step of tokenize lowers the number of steps left, which is never
\* negative; and until tokenize has returned a step can be taken (the
\* control point is one a step leaves, and a scan iteration inside the line
\* takes one of the branches).
C5_TokenizeTerminates ==
    /\ [][pc = "scan" => (i' > i \/ lineIdx' = lineIdx + 1)]_vars
    /\ [][StepsLeft' < StepsLeft]_vars
    /\ [](StepsLeft >= 0)
    /\ [](/\ pc \in {"tokenize", "line", "scan", "lexed"}
          /\ (pc = "scan" /\ i < Len(Line)) =>
                scanStep(Line, i).branch \in ScanBranches)

C5_Witness ==
    /\ pc = "lexed"
    /\ Len(lines) >= 2
    /\ lineIdx = Len(lines)
    /\ Len(tokens) >= 2

\* C6: the line pass is lossless: when tokenize returns, every token of the
\* line pass carries exactly the characters of its place in the text, these
\* places are in source order and do not overlap, and every non-blank
\* character of the source that is not inside a block comment lies in
\* exactly one of them, its character being the lexeme's at that offset.
C6_Lossless ==
    pc = "lexed" =>
        /\ \A k \in LinePass :
             /\ spans[k].from < spans[k].to
             /\ tokens[k].value = Slice(code, spans[k].from, spans[k].to)
        /\ \A k \in LinePass : \A l \in LinePass :
             k < l => spans[k].to <= spans[l].from
        /\ \A p \in 0..(Len(inputCode) - 1) :
             (~IsSpace(At(inputCode, p)) /\ ~InBlockComment(p)) =>
                /\ Cardinality({k \in LinePass :
                                  spans[k].from <= p /\ p < spans[k].to}) = 1
                /\ \A k \in LinePass :
                     (spans[k].from <= p /\ p < spans[k].to) =>
                        At(tokens[k].value, p - spans[k].from) = At(inputCode, p)

C6_Witness ==
    /\ pc = "lexed"
    /\ BlockPass # {}
    /\ Cardinality(LinePass) >= 2
    /\ \E p \in 0..(Len(inputCode) - 1) : IsSpace(At(inputCode, p))

\* C7 as claimed: every UNDEFINED token has a lexeme of exactly one character.
C7_UndefinedIsOneChar ==
    \A k \in TokenIndices :
        tokens[k].type = "UNDEFINED" => Len(tokens[k].value) = 1

\* C7 as amended: an UNDEFINED token has a lexeme of exactly one character,
\* or it is classifyLexeme's fallback and carries a whole run of letters,
\* digits and underscores that starts with a digit and is not a number.
C7_UndefinedShape ==
    \A k \in TokenIndices :
        tokens[k].type = "UNDEFINED" =>
            LET v == tokens[k].value
            IN  \/ Len(v) = 1
                \/ /\ Len(v) >= 2
                   /\ IsDigit(v[1])
                   /\ AllIn(v, 0, Len(v), WordChars)
                   /\ ~HexBody(v, 0, Len(v))
                   /\ ~DecimalBody(v, 0, Len(v))
                   /\ v = Slice(code, spans[k].from, spans[k].to)
                   /\ ~IsWord(At(code, spans[k].to))

C7_Witness ==
    /\ pc = "lexed"
    /\ \E k \in TokenIndices :
         tokens[k].type = "UNDEFINED" /\ Len(tokens[k].value) >= 2
    /\ \E k \in TokenIndices :
         tokens[k].type = "UNDEFINED" /\ Len(tokens[k].value) = 1

\* C8: every token's lexeme is a contiguous substring of the source text
\* passed to tokenize.
C8_LexemeIsSubstring ==
    \A k \in TokenIndices : IsSubstring(tokens[k].value, inputCode)

\* C9: a run of letters, digits and underscores that starts with a letter
\* or an underscore is classified KEYWORD when it is one of the twelve
\* reserved words and IDENTIFIER otherwise.
C9_KeywordPrecedence ==
    \A k \in LinePass :
        LET v == tokens[k].value
        IN  (AllIn(v, 0, Len(v), WordChars) /\ v[1] \in Letters \cup {"_"}) =>
                tokens[k].type = IF v \in Keywords THEN "KEYWORD" ELSE "IDENTIFIER"

C9_Witness ==
    /\ pc = "lexed"
    /\ \E k \in LinePass : tokens[k] = Token("KEYWORD", str_int)
    /\ \E k \in LinePass : tokens[k] = Token("IDENTIFIER", str_int \o <<"_", "x">>)
    /\ \E k \in LinePass : tokens[k] = Token("IDENTIFIER", <<"f","o","r","m","a","t">>)

\* C10: the lexeme of every OPERATOR token is one of the nine two-character
\* operators or one operator character.
C10_OperatorLexemes ==
    \A k \in TokenIndices :
        tokens[k].type = "OPERATOR" => MatchOperator_Exact(tokens[k].value)

\* C11: in the output of tokenize every token of the block-comment pass is a
\* Comment token that precedes every token of the line-by-line pass, wherever
\* the comment stands in the source, and the block-comment tokens are in the
\* order of their places in the source.
C11_BlockCommentsFirst ==
    /\ \A k \in BlockPass : tokens[k].type = "COMMENT"
    /\ \A k \in BlockPass, l \in LinePass : k < l
    /\ \A k, l \in BlockPass : k < l => spans[k].to <= spans[l].from

\* tokenize has returned two block comments and a token of the line pass
\* that stands before one of them in the source.
C11_Witness ==
    /\ pc = "lexed"
    /\ Cardinality(BlockPass) >= 2
    /\ \E k \in BlockPass, l \in LinePass : spans[l].to <= spans[k].from

\* handleParse has come to its end: parse returned, threw or cannot return.
Parsed == pc \in {"parsed", "threw", "stalled"}

Literal(v) == [type |-> "Literal", value |-> v]

Binary(op, l, r) ==
    [type |-> "BinaryExpression", operator |-> op, left |-> l, right |-> r]

ExpressionStatement123 ==
    [type |-> "ExpressionStatement",
     expression |-> Binary(<<"+">>, Literal(<<"1">>),
                           Binary(<<"*">>, Literal(<<"2">>), Literal(<<"3">>)))]

\* C12: tokenize and then parse, run on a source text in which the statement
\* 1+2*3; written without spaces stands in a function body, return a tree
\* that holds for it the ExpressionStatement of
\* BinaryExpression(+, Literal 1, BinaryExpression(*, Literal 2, Literal 3)).
C12_Statement123 ==
    (Parsed /\ inputCode \in Stmt123Sources)
        => (pc = "parsed" /\ ExpressionStatement123 \in NodesOf(ast))

ReturnProgram(T, name, N) ==
    [type |-> "Program",
     body |-> << [type |-> "FunctionDeclaration",
                  returnType |-> T,
                  name |-> name,
                  parameters |-> <<>>,
                  body |-> [type |-> "CompoundStatement",
                            body |-> << [type |-> "ReturnStatement",
                                         expression |-> Literal(N)] >>]] >>]

\* C13: for a source text T name(){ return N; } with T a type specifier,
\* name an identifier and N a number, tokenize and then parse return the
\* Program whose body is the one FunctionDeclaration with returnType T, that
\* name, no parameters and a CompoundStatement holding the one
\* ReturnStatement of Literal N, and the cursor ends at the token count.
C13_ReturnRoundTrip ==
    \A T \in TypeSpecifiers, name \in FunctionNames, N \in Numbers :
        (Parsed /\ inputCode = ReturnSource(T, name, N))
            => /\ pc = "parsed"
               /\ ast = ReturnProgram(T, name, N)
               /\ current = Len(tokens)

\* The header of the token sequence parseFunctionDefinition is called on at
\* cursor 0: the name, the opening parenthesis, the closing parentheses.
NameFound == Len(tokens) >= 2 /\ tokens[2].type = "IDENTIFIER"

OpenParenFound == NameFound /\ Len(tokens) >= 3 /\ tokens[3].type = "OPEN_PAREN"

CloseParens == {k \in 4..Len(tokens) : tokens[k].value = <<")">>}

FirstCloseParen == CHOOSE k \in CloseParens : \A j \in CloseParens : k <= j

OpenBraceFollows ==
    /\ FirstCloseParen < Len(tokens)
    /\ tokens[FirstCloseParen + 1].type = "OPEN_BRACE"

\* parseFunctionDefinition returns the error node with this message.
HeaderError(msg) == pc' = "parseFunctionDefinition" /\ ast' = ErrorNode(msg)

\* C14: parseFunctionDefinition returns an error node and no
\* FunctionDeclaration in each malformed-header case: the token after the
\* type is not an identifier (Expected function name), the token after the
\* name is not ( (Expected '(' after function name), no ) is found before the
\* end of input (Unexpected end of input while parsing function parameters),
\* the token after ) is not { (Expected '{' at beginning of function body).
C14_MalformedHeader ==
    [][pc = "call parseFunctionDefinition" =>
        /\ ~NameFound => HeaderError("Expected function name")
        /\ (NameFound /\ ~OpenParenFound)
              => HeaderError("Expected '(' after function name")
        /\ (OpenParenFound /\ CloseParens = {})
              => HeaderError("Unexpected end of input while parsing function parameters")
        /\ (OpenParenFound /\ CloseParens # {} /\ ~OpenBraceFollows)
              => HeaderError("Expected '{' at beginning of function body")]_vars

\* int f(int) {}, int f(void) {} and int f(int, int b) {}
MissingNameHeaders ==
    {<<K(str_int), Id("f"), LParen>> \o ps \o <<RParen, LBrace, RBrace>> :
        ps \in { <<K(str_int)>>, <<K(str_void)>>,
                 <<K(str_int), Sep(","), K(str_int), Id("b")>> }}

\* C16: when a type specifier of a parameter list is followed by ) or , and
\* not by a name, parseFunctionDefinition records a Parameter whose
\* paramName is the placeholder, takes neither ) nor , as a name, and
\* returns the FunctionDeclaration.
C16_MissingParameterName ==
    [][(pc = "call parseFunctionDefinition" /\ tokens \in MissingNameHeaders) =>
        /\ pc' = "parseFunctionDefinition"
        /\ ast'.type = "FunctionDeclaration"
        /\ \E k \in 1..Len(ast'.parameters) :
              ast'.parameters[k].paramName = MissingId
        /\ \A k \in 1..Len(ast'.parameters) :
              ast'.parameters[k].paramName \notin { <<")">>, <<",">> }]_vars

\* The tokens parsePrimary has no case for.
FallbackToken(token) ==
    /\ token.type \notin {"NUMBER", "STRING_LITERAL", "IDENTIFIER",
                          "OPEN_PAREN", "CLOSE_PAREN"}
    /\ ~(token.type = "KEYWORD" /\ ~isTypeSpecifier(token))
    /\ ~(token.type = "SEPARATOR" /\ token.value = <<";">>)

\* C15: called on a token that is not a number, a string literal, an
\* identifier, a keyword other than a type specifier, (, ) or ; parsePrimary
\* returns Unknown with that token's value and leaves the cursor exactly one
\* token further.
C15_UnknownFallback ==
    [][(/\ pc = "call parsePrimary"
        /\ current < Len(tokens)
        /\ FallbackToken(tokens[current + 1]))
        => /\ pc' = "parsePrimary"
           /\ ast' = [type |-> "Unknown", value |-> tokens[current + 1].value]
           /\ current' = current + 1]_vars

\* parsePrimary has returned Unknown for the Undefined token @, one token
\* further than where it was called.
C15_Witness ==
    /\ pc = "parsePrimary"
    /\ ast = [type |-> "Unknown", value |-> <<"@">>]
    /\ trace = <<current - 1, current>>

\* The level of a binary operator, a higher one binding tighter.
Level(op) ==
    CASE op \in EqualityOps -> 1
      [] op \in RelationalOps -> 2
      [] op \in AdditiveOps -> 3
      [] op \in MultiplicativeOps -> 4

\* The node of a primary of one token.
Leaf(token) ==
    IF token.type = "NUMBER" THEN Literal(token.value)
    ELSE [type |-> "Identifier", name |-> token.value]

\* The tokens are a op1 b op2 c, with or without a semicolon after them.
ThreeOperands(ops1, ops2) ==
    /\ Len(tokens) \in {5, 6}
    /\ tokens[1] \in Primaries /\ tokens[3] \in Primaries /\ tokens[5] \in Primaries
    /\ tokens[2].type = "OPERATOR" /\ tokens[2].value \in ops1
    /\ tokens[4].type = "OPERATOR" /\ tokens[4].value \in ops2

\* parseExpression returns this node and leaves the cursor after c.
ExpressionReturned(node) ==
    pc' = "parseExpression" /\ ast' = node /\ current' = 5

\* C18: for primaries a, b, c and binary operators op1, op2 of the levels
\* Equality, Relational, Additive and Multiplicative, given as separate
\* tokens, parseExpression on a op1 b op2 c returns
\* Binary(op1, a, Binary(op2, b, c)) when op2's level binds strictly tighter
\* than op1's and Binary(op2, Binary(op1, a, b), c) otherwise.
C18_Precedence ==
    [][(pc = "call parseExpression" /\ ThreeOperands(BinaryOps, BinaryOps)) =>
        IF Level(tokens[4].value) > Level(tokens[2].value)
        THEN ExpressionReturned(
                 Binary(tokens[2].value, Leaf(tokens[1]),
                        Binary(tokens[4].value, Leaf(tokens[3]), Leaf(tokens[5]))))
        ELSE ExpressionReturned(
                 Binary(tokens[4].value,
                        Binary(tokens[2].value, Leaf(tokens[1]), Leaf(tokens[3])),
                        Leaf(tokens[5])))]_vars

\* parseExpression has returned a + (b * 1) for a + b * 1.
C18_Witness ==
    /\ pc = "parseExpression"
    /\ Len(tokens) = 5
    /\ ast = Binary(<<"+">>, Leaf(Id("a")),
                    Binary(<<"*">>, Leaf(Id("b")), Literal(<<"1">>)))

Assignment(l, r) ==
    [type |-> "AssignmentExpression", operator |-> <<"=">>, left |-> l, right |-> r]

\* C19: assignment is right-associative and binds loosest: parseExpression
\* on a = b = c returns Assignment(a, Assignment(b, c)), and on a = b op c,
\* op a binary operator such as +, it returns Assignment(a, Binary(op, b, c)).
C19_Assignment ==
    [][pc = "call parseExpression" =>
        /\ ThreeOperands({ <<"=">> }, { <<"=">> }) =>
              ExpressionReturned(
                  Assignment(Leaf(tokens[1]),
                             Assignment(Leaf(tokens[3]), Leaf(tokens[5]))))
        /\ ThreeOperands({ <<"=">> }, BinaryOps) =>
              ExpressionReturned(
                  Assignment(Leaf(tokens[1]),
                             Binary(tokens[4].value, Leaf(tokens[3]),
                                    Leaf(tokens[5]))))]_vars

\* parseExpression has returned a = (b = 1) for a = b = 1.
C19_Witness ==
    /\ pc = "parseExpression"
    /\ ast = Assignment(Leaf(Id("a")), Assignment(Leaf(Id("b")), Literal(<<"1">>)))

FunctionDeclarations == {n \in NodesOf(Tree) : n.type = "FunctionDeclaration"}

MissingCloseBrace == ErrorNode("Expected '}' at end of compound statement")

Remove(toks, k) == SubSeq(toks, 1, k - 1) \o SubSeq(toks, k + 1, Len(toks))

\* The function body of the tokens starts with pre and goes on with a
\* Comment token.
CommentAfter(pre) ==
    /\ Len(tokens) > Len(FunctionHead \o pre)
    /\ SubSeq(tokens, 1, Len(FunctionHead \o pre)) = FunctionHead \o pre
    /\ tokens[Len(FunctionHead \o pre) + 1].type = "COMMENT"

\* C20: a Comment token at a statement position (the start of a statement in
\* a compound body, or where the body of an if, an else or a for is
\* expected) is skipped and gives no node: the tree parse returns is the tree
\* it returns for the same tokens without that Comment token.
C20_CommentSkipped ==
    pc = "parsed" =>
        \A pre \in StatementStarts :
            CommentAfter(pre) =>
                /\ ~Halted(parse(Remove(tokens, Len(FunctionHead \o pre) + 1)))
                /\ ast = parse(Remove(tokens, Len(FunctionHead \o pre) + 1)).node

\* The tokens are a type, the declarators d and the ; after them.
DeclarationOf(d) ==
    /\ Len(tokens) >= Len(d) + 2
    /\ SubSeq(tokens, 1, Len(d) + 2) = <<K(str_int)>> \o d \o <<Sep(";")>>

\* C21: called with expectSemicolon = false parseDeclaration leaves the
\* cursor on the ; that follows the declaration, and called with
\* expectSemicolon = true it leaves it after that ;, whatever the number of
\* declarators, none included.
C21_TrailingSemicolon ==
    [][\A d \in DeclaratorLists :
          /\ (pc = "call parseDeclaration false" /\ DeclarationOf(d))
                => (pc' = "parseDeclaration false" /\ current' = Len(d) + 1)
          /\ (pc = "call parseDeclaration true" /\ DeclarationOf(d))
                => (pc' = "parseDeclaration true" /\ current' = Len(d) + 2)]_vars

\* The lexemes of the tokens from the k-th on, with sep between them.
RECURSIVE JoinFrom(_, _, _)
JoinFrom(toks, k, sep) ==
    IF k > Len(toks) THEN <<>>
    ELSE IF k = Len(toks) THEN toks[k].value
    ELSE toks[k].value \o sep \o JoinFrom(toks, k + 1, sep)

Joined == JoinFrom(tokens, 1, Sp)

Kinds(toks) == [k \in 1..Len(toks) |-> toks[k].type]

KindsOf(types) == {k \in TokenIndices : tokens[k].type \in types}

\* C22: for an input without comments and string literals, the lexemes of
\* tokenize(s) joined with a blank between them tokenize to the same
\* sequence of token kinds as s.
C22_KindsRoundTrip ==
    (pc = "lexed" /\ KindsOf({"COMMENT", "STRING_LITERAL"}) = {})
        => Kinds(tokenize(Joined)) = Kinds(tokens)

\* C22, as the code has it: for an input that holds no double quote and for
\* which tokenize returns no Comment and no Preprocessor token, the lexemes
\* joined with a blank between them tokenize to the same sequence of token
\* kinds.
C22_KindsRoundTripPlain ==
    (/\ pc = "lexed"
     /\ \A k \in 1..Len(inputCode) : inputCode[k] # "\""
     /\ KindsOf({"COMMENT", "PREPROCESSOR"}) = {})
        => Kinds(tokenize(Joined)) = Kinds(tokens)

\* tokenize has returned several tokens for such an input, one of them an
\* operator of two characters, and the joined lexemes differ from the input.
C22_Witness ==
    /\ pc = "lexed"
    /\ \A k \in 1..Len(inputCode) : inputCode[k] # "\""
    /\ KindsOf({"COMMENT", "PREPROCESSOR"}) = {}
    /\ Len(tokens) >= 3
    /\ \E k \in KindsOf({"OPERATOR"}) : Len(tokens[k].value) = 2
    /\ Joined # inputCode

\* C23: the tree parse returns depends on its tokens only: whatever call came
\* before and wherever it left the cursor, parse returns the tree it returns
\* for these tokens when called first, and leaves the cursor where that call
\* leaves it.
C23_ParseDependsOnTokensOnly ==
    [][pc' = "parsed" =>
          /\ ~Halted(parse(tokens))
          /\ ast' = parse(tokens).node
          /\ current' = parse(tokens).cur]_vars

\* A later call of parse is running: the cursor has been reset while the
\* tree of the call before, on other tokens, is still the one stored.
C23_Witness ==
    /\ pc = "program"
    /\ current = 0
    /\ ast.type = "Program"
    /\ ast # parse(tokens).node
    /\ ~Halted(parse(tokens))

Identifier(name) == [type |-> "Identifier", name |-> name]

ExpressionStatement(e) == [type |-> "ExpressionStatement", expression |-> e]

CompoundStatement(stmts) == [type |-> "CompoundStatement", body |-> stmts]

\* parseStatement is called at the first token and returns node with the
\* cursor after the last token.
StatementIs(toks, node) ==
    (pc = "call parseStatement" /\ tokens = toks)
        => (pc' = "parseStatement" /\ ast' = node /\ current' = Len(toks))

\* C24: a keyword kw that is neither a type specifier nor return, if or for
\* is taken for an Identifier where a statement and where an expression may
\* start, and kw ( c ) { a ; } in a block is two statements, the
\* ExpressionStatement of FunctionCall(kw, [c]) and a CompoundStatement.
C24_KeywordAsIdentifier ==
    [][\A kw \in OtherKeywords :
          /\ StatementIs(<<K(kw), Sep(";")>>,
                         ExpressionStatement(Identifier(kw)))
          /\ StatementIs(<<Id("a"), Op(<<"=">>), K(kw), Sep(";")>>,
                         ExpressionStatement(
                             [type |-> "AssignmentExpression",
                              operator |-> <<"=">>,
                              left |-> Identifier(<<"a">>),
                              right |-> Identifier(kw)]))
          /\ StatementIs(CallThenBlock(kw),
                         CompoundStatement(
                             << ExpressionStatement(
                                    [type |-> "FunctionCall", name |-> kw,
                                     arguments |-> <<Identifier(<<"c">>)>>]),
                                CompoundStatement(
                                    <<ExpressionStatement(Identifier(<<"a">>))>>) >>))
      ]_vars

C24_Witness ==
    /\ pc = "parseStatement"
    /\ tokens = CallThenBlock(str_while)
    /\ ast.type = "CompoundStatement"
    /\ Len(ast.body) = 2
    /\ ast.body[1].expression.type = "FunctionCall"
    /\ ast.body[1].expression.name = str_while

\* The node of each of the SimpleStatements.
SimpleNode(S) ==
    CASE S = <<Id("a"), Sep(";")>> -> ExpressionStatement(Identifier(<<"a">>))
      [] S = <<K(str_return), Num("1"), Sep(";")>> ->
            [type |-> "ReturnStatement", expression |-> Literal(<<"1">>)]
      [] S = <<LBrace, Id("a"), Sep(";"), RBrace>> ->
            CompoundStatement(<<ExpressionStatement(Identifier(<<"a">>))>>)
      [] S = <<Sep(";")>> -> ExpressionStatement(NullNode)

If(condition, thenStmt, elseStmt) ==
    [type |-> "IfStatement", condition |-> condition,
     then |-> thenStmt, else |-> elseStmt]

\* C25: if ( a ) if ( b ) S1 else S2 is an IfStatement on a without an else
\* whose then is the IfStatement on b with then S1 and else S2.
C25_DanglingElse ==
    [][\A S1 \in SimpleStatements, S2 \in SimpleStatements :
          StatementIs(NestedIf(S1, S2),
                      If(Identifier(<<"a">>),
                         If(Identifier(<<"b">>), SimpleNode(S1), SimpleNode(S2)),
                         NullNode))
      ]_vars

C25_Witness ==
    /\ pc = "parseStatement"
    /\ \E S1 \in SimpleStatements, S2 \in SimpleStatements :
          tokens = NestedIf(S1, S2)
    /\ ast.type = "IfStatement"
    /\ ast.else = NullNode
    /\ ast.then.type = "IfStatement"
    /\ ast.then.else.type = "ReturnStatement"

\* { t } for the t that hold no brace: the } at the end closes the { at the
\* start.
BraceFreeBlocks ==
    {<<LBrace>> \o t \o <<RBrace>> :
        t \in SeqsUpTo(BlockAlphabet \ {LBrace, RBrace}, MaxBlock)}

\* C26: no rule that runs inside a block consumes the } that closes it: when
\* parseStatement returns from a block { t } whose t holds no brace, it
\* returns a CompoundStatement with the cursor after the }.
C26_CloseBraceKept ==
    [][(/\ pc = "call parseStatement"
        /\ tokens \in BraceFreeBlocks
        /\ pc' = "parseStatement")
          => (ast'.type = "CompoundStatement" /\ current' = Len(tokens))]_vars

\* What the page holds: everything but the control point and the variables
\* of the small-step lexer and parser.
pageVars ==
    <<codeInput, tokens, ast, current, semanticAnalysis, intermediateCode,
      optimizedCode, assemblyCode, activeTab>>

\* C27: the later stages are gated in order. Generate IR with ast null,
\* Optimize with intermediateCode empty and Generate Assembly with
\* optimizedCode empty return without a change of what the page holds; and no
\* step leaves optimizedCode set from a state with intermediateCode empty,
\* assemblyCode set from one with optimizedCode empty, or intermediateCode
\* set from one with ast null.
C27_StagesGated ==
    [][/\ (pc = "handleIntermediateCodeGeneration" /\ ast = NullNode)
             => (pc' = "idle" /\ UNCHANGED pageVars)
       /\ (pc = "handleCodeOptimization" /\ intermediateCode = <<>>)
             => (pc' = "idle" /\ UNCHANGED pageVars)
       /\ (pc = "handleCodeGeneration" /\ optimizedCode = <<>>)
             => (pc' = "idle" /\ UNCHANGED pageVars)
       /\ ast = NullNode => intermediateCode' = <<>>
       /\ intermediateCode = <<>> => optimizedCode' = <<>>
       /\ optimizedCode = <<>> => assemblyCode' = <<>>
      ]_vars

\* Optimize is clicked with a tree stored and no intermediate code yet.
C27_Witness ==
    /\ pc = "handleCodeOptimization"
    /\ ast # NullNode
    /\ intermediateCode = <<>>
    /\ optimizedCode = <<>>

\* C28: in every state of the page each stage output that is not empty is
\* the output of its stage for the tree that is stored.
C28_OutputsOfStoredAst ==
    /\ intermediateCode # <<>> => intermediateCode = formatTAC(ast)
    /\ optimizedCode # <<>> => optimizedCode = formatOptimizedCode(ast)
    /\ assemblyCode # <<>> => assemblyCode = formatAssembly(ast)

====
